---- MODULE Spec2Model ----
(***************************************************************************)
(* CaseAsk API routes: response recorder (pages/api/user-responses.ts),    *)
(* prompt management (pages/api/prompt.ts) and the moderation gate         *)
(* (lib/moderation.ts), over the UserResponse and Prompt collections.      *)
(*                                                                         *)
(* Every request is a process; each await on the document store or on the  *)
(* classifier is one atomic step, so requests interleave between awaits.   *)
(* A missing (undefined) or empty body field is "" (strings) or 0 (ids):   *)
(* both are falsy in the handlers and both fail the required validator of mongoose.     *)
(* Confidences are hundredths (0.7 is 70).                                 *)
(***************************************************************************)
EXTENDS Integers, Sequences, FiniteSets, TLC

\* ---------------------------------------------------------------- bounds
MaxReq == 2
MaxCats == 2

Requests == 1..MaxReq
UserIds == {"u1", "u2"}
PromptRefs == {1, 2}
Answers == {"Yes", "No"}
ConfSet == {0, 20, 69, 70, 71, 90, 100}

\* ------------------------------------------------------------- constants
THRESHOLD == 70
DUPLICATE_KEY == 11000

AlreadyMsg == "User has already responded to this prompt"
RequiredMsg == "User ID, prompt ID, and selected response are required"
PendingMsg == "Your prompt has been flagged and is pending moderator review."
StorageErrMsg == "storage failure"
DuplicateErrMsg == "E11000 duplicate key error"
ClassifierErrMsg == "classifier client failure"

VARIABLES
  responses,  \* the UserResponse collection
  prompts,    \* the Prompt collection
  nextId,     \* next _id the store hands out
  req,        \* req[r]: route, method and body of request r
  pc,         \* pc[r]: where request r's handler is suspended
  loc,        \* loc[r]: the handler's local variables
  res,        \* res[r]: what the handler wrote to its response object
  prior,      \* prior[r]: the record stored for r's pair when r arrived
  gate,       \* one moderation-gate call: classifier outcome and result
  users,      \* the User collection
  bucket,     \* one age bucketing: birth year, calendar year and result
  ui,         \* the feed page of one signed-in user: its React state
  cached,     \* dbConnect: the module's connection cache
  dbc         \* dbConnect: callers, connection attempts, microtask queue

vars ==
  <<responses, prompts, nextId, req, pc, loc, res, prior, gate, users, bucket,
    ui, cached, dbc>>

\* --------------------------------------------------------------- records
NoRec == [id |-> 0, userId |-> "", promptId |-> 0, selectedResponse |-> ""]
NoPrompt == [id |-> 0]
NoRes == [status |-> 0, success |-> FALSE, message |-> "", error |-> "", data |-> NoRec]
NoReq == [route |-> "", method |-> "", body |-> [none |-> TRUE], sent |-> [none |-> TRUE]]
NoBucket ==
  [year |-> 0, currentYear |-> 0, called |-> FALSE, group |-> "",
   counted |-> [k \in {} |-> 0]]
EmptyMap == [k \in {} |-> 0]
MaxCallers == 5
Callers == 1..MaxCallers
NoUi ==
  [userResponses |-> [p \in PromptRefs |-> ""], selectedResponse |-> "",
   clicks |-> [r \in Requests |-> ""], mount |-> "idle",
   responsesMap |-> [p \in PromptRefs |-> ""]]
NoCached == [conn |-> 0, promise |-> 0]
NoDbc ==
  [status |-> <<>>, queue |-> <<>>, at |-> [c \in Callers |-> "idle"],
   awaits |-> [c \in Callers |-> 0], ret |-> [c \in Callers |-> 0],
   connects |-> 0]
NoLoc ==
  [errorCode |-> 0, textsToCheck |-> <<>>, idx |-> 1, autoFlagged |-> FALSE,
   calls |-> <<>>, failed |-> FALSE, fault |-> FALSE,
   responses |-> {}, responsesByAnswer |-> <<>>, answerStats |-> EmptyMap,
   before |-> NoPrompt, form |-> FALSE, recordExists |-> FALSE,
   existing |-> [clerkId |-> ""], saved |-> FALSE]

Json(status, success, message, error, data) ==
  [status |-> status, success |-> success, message |-> message,
   error |-> error, data |-> data]

\* ---------------------------------------------------- UserResponse model
\* The documents matching { userId, promptId }.
Matching(coll, userId, promptId) ==
  {x \in coll : x.userId = userId /\ x.promptId = promptId}

\* A lookup that never finds the stored document.
FindOneNever(coll, userId, promptId) == {NoRec}

\* UserResponse.findOne({ userId, promptId }): a matching document or null.
FindOneResults(coll, userId, promptId) ==
  IF Matching(coll, userId, promptId) = {} THEN {NoRec}
  ELSE Matching(coll, userId, promptId)

\* A collection without the unique index accepts every insert.
NoUniqueIndex(coll, userId, promptId) == FALSE

\* The unique compound index { userId: 1, promptId: 1 }: an insert of a pair
\* that is already stored is rejected with a duplicate-key error.
UniqueIndexRejects(coll, userId, promptId) ==
  Matching(coll, userId, promptId) # {}

URBodies ==
  [userId : UserIds, promptId : PromptRefs, selectedResponse : Answers]
  \cup {[userId |-> "", promptId |-> 1, selectedResponse |-> "Yes"],
        [userId |-> "u1", promptId |-> 0, selectedResponse |-> "Yes"],
        [userId |-> "u1", promptId |-> 1, selectedResponse |-> ""]}

\* History: a record stored for the pair at this moment (NoRec when none).
StoredFor(userId, promptId) ==
  IF \E x \in responses : x.userId = userId /\ x.promptId = promptId
  THEN CHOOSE x \in responses : x.userId = userId /\ x.promptId = promptId
  ELSE NoRec

\* A request may arrive only when every lower-numbered request has arrived:
\* request numbers are arrival order.
CanArrive(r) ==
  /\ pc[r] = "idle"
  /\ \A q \in Requests : q < r => pc[q] # "idle"

Finish(r, json) ==
  /\ res' = [res EXCEPT ![r] = json]
  /\ pc' = [pc EXCEPT ![r] = "done"]

\* A create that overwrites what the user had answered before.
InsertReplacing(coll, doc) == {x \in coll : x.userId # doc.userId} \cup {doc}
\* UserResponse.create(...) adds one document.
Insert(coll, doc) == coll \cup {doc}

\* POST /api/user-responses: arrival, field check.
PostResponseReceive(r, body) ==
  /\ req' = [req EXCEPT ![r] =
       [route |-> "user-responses", method |-> "POST", body |-> body, sent |-> body]]
  /\ prior' = [prior EXCEPT ![r] = StoredFor(body.userId, body.promptId)]
  /\ IF body.userId = "" \/ body.promptId = 0 \/ body.selectedResponse = ""
     THEN Finish(r, Json(400, FALSE, RequiredMsg, "", NoRec))
     ELSE /\ pc' = [pc EXCEPT ![r] = "findOne"]
          /\ UNCHANGED res
  /\ UNCHANGED <<responses, prompts, nextId, loc, gate, users, bucket, ui, cached, dbc>>

PostResponseArrive(r) ==
  /\ CanArrive(r)
  /\ \E body \in URBodies : PostResponseReceive(r, body)
  /\ UNCHANGED <<responses, prompts, nextId, loc, gate, users, bucket, ui, cached, dbc>>

\* The pre-check: await UserResponse.findOne({ userId, promptId }).
PostResponseFindOne(r) ==
  /\ pc[r] = "findOne"
  /\ \E fault \in BOOLEAN :
       IF fault
       THEN /\ loc' = [loc EXCEPT ![r].fault = TRUE]
            /\ Finish(r, Json(400, FALSE, "", StorageErrMsg, NoRec))
       ELSE \E existingResponse \in
                 FindOneResults(responses, req[r].body.userId, req[r].body.promptId) :
              /\ UNCHANGED loc
              /\ IF existingResponse # NoRec
                 THEN Finish(r, Json(400, FALSE, AlreadyMsg, "", existingResponse))
                 ELSE /\ pc' = [pc EXCEPT ![r] = "create"]
                      /\ UNCHANGED res
  /\ UNCHANGED <<responses, prompts, nextId, req, prior, gate, users, bucket, ui, cached, dbc>>

\* A handler that does not recognise the duplicate-key code.
IsDuplicateKeyNever(code) == FALSE

\* if (error.code === 11000)
IsDuplicateKey(code) == code = DUPLICATE_KEY

\* await UserResponse.create({ userId, promptId, selectedResponse }).
PostResponseCreate(r) ==
  /\ pc[r] = "create"
  /\ req[r].route = "user-responses"
  /\ LET body == req[r].body
         newResponse == [id |-> nextId, userId |-> body.userId,
                         promptId |-> body.promptId,
                         selectedResponse |-> body.selectedResponse]
     IN \E fault \in BOOLEAN :
          IF fault
          THEN /\ loc' = [loc EXCEPT ![r].fault = TRUE]
               /\ Finish(r, Json(400, FALSE, "", StorageErrMsg, NoRec))
               /\ UNCHANGED <<responses, nextId>>
          ELSE IF UniqueIndexRejects(responses, body.userId, body.promptId)
          THEN /\ loc' = [loc EXCEPT ![r].errorCode = DUPLICATE_KEY]
               /\ UNCHANGED <<responses, nextId>>
               /\ IF IsDuplicateKey(DUPLICATE_KEY)
                  THEN /\ pc' = [pc EXCEPT ![r] = "catchFindOne"]
                       /\ UNCHANGED res
                  ELSE Finish(r, Json(400, FALSE, "", DuplicateErrMsg, NoRec))
          ELSE /\ responses' = Insert(responses, newResponse)
               /\ nextId' = nextId + 1
               /\ Finish(r, Json(201, TRUE, "", "", newResponse))
               /\ UNCHANGED loc
  /\ UNCHANGED <<prompts, req, prior, gate, users, bucket, ui, cached, dbc>>

\* Inside the catch block for a duplicate key: await UserResponse.findOne(...) again,
\* outside any try block.
PostResponseCatchFindOne(r) ==
  /\ pc[r] = "catchFindOne"
  /\ \E fault \in BOOLEAN :
       IF fault
       THEN /\ loc' = [loc EXCEPT ![r].fault = TRUE]
            /\ pc' = [pc EXCEPT ![r] = "thrown"]
            /\ UNCHANGED res
       ELSE \E existingResponse \in
                 FindOneResults(responses, req[r].body.userId, req[r].body.promptId) :
              /\ UNCHANGED loc
              /\ Finish(r, Json(400, FALSE, AlreadyMsg, "", existingResponse))
  /\ UNCHANGED <<responses, prompts, nextId, req, prior, gate, users, bucket, ui, cached, dbc>>

\* -------------------------------------------------------- moderation gate
\* What one classifier interaction can produce: the key material cannot be
\* decoded ("credFail"), auth.getClient() rejects ("authFail"),
\* client.request() rejects ("netFail"), the reply has no data object
\* ("noData"), data carries no moderationCategories array ("noList"), or
\* data carries the list of confidences cats ("list").
SeqsUpTo(S, n) == UNION {[1..k -> S] : k \in 0..n}

ClassifierOutcomes ==
  {[kind |-> k, cats |-> <<>>] :
      k \in {"credFail", "authFail", "netFail", "noData", "noList"}}
  \cup {[kind |-> "list", cats |-> c] : c \in SeqsUpTo(ConfSet, MaxCats)}

\* The classifier outcomes a prompt submission is run against: every kind of
\* failure, and lists below, at and above the threshold.
SampleOutcomes ==
  {[kind |-> k, cats |-> <<>>] :
      k \in {"credFail", "authFail", "netFail", "noData", "noList"}}
  \cup {[kind |-> "list", cats |-> c] : c \in {<<>>, <<20>>, <<70>>, <<20, 90>>}}

\* The classifier interaction failed: anything but a well-formed list.
Failed(o) == o.kind # "list"

\* A strict comparison against the threshold.
AboveThreshold(confidence) == confidence > THRESHOLD

\* if (category.confidence >= THRESHOLD)
AtThreshold(confidence) == confidence >= THRESHOLD

\* for (const category of moderationCategories) { if (...) return true; }
\* return false;
RECURSIVE ScanCategories(_, _)
ScanCategories(cats, i) ==
  IF i > Len(cats) THEN FALSE
  ELSE IF AtThreshold(cats[i]) THEN TRUE
  ELSE ScanCategories(cats, i + 1)

Resolve(v) == [rejected |-> FALSE, value |-> v]
Reject == [rejected |-> TRUE, value |-> FALSE]

\* isInappropriate(text): the key file and auth.getClient() are used before
\* the try block, the request and the reading of its data inside it.
isInappropriate(o) ==
  IF o.kind \in {"credFail", "authFail"} THEN Reject
  ELSE IF o.kind \in {"netFail", "noData"} THEN Resolve(TRUE)
  ELSE IF o.kind = "noList" THEN Resolve(FALSE)
  ELSE Resolve(ScanCategories(o.cats, 1))

\* One call of the gate on its own.
GateCall ==
  /\ ~gate.called
  /\ gate' = [gate EXCEPT !.called = TRUE,
                          !.rejected = isInappropriate(gate.outcome).rejected,
                          !.value = isInappropriate(gate.outcome).value]
  /\ UNCHANGED <<responses, prompts, nextId, req, pc, loc, res, prior, users, bucket, ui, cached, dbc>>

InitGate ==
  /\ responses = {}
  /\ prompts = {}
  /\ nextId = 1
  /\ req = [r \in Requests |-> NoReq]
  /\ pc = [r \in Requests |-> "idle"]
  /\ loc = [r \in Requests |-> NoLoc]
  /\ res = [r \in Requests |-> NoRes]
  /\ prior = [r \in Requests |-> NoRec]
  /\ \E o \in ClassifierOutcomes :
       gate = [outcome |-> o, called |-> FALSE, rejected |-> FALSE, value |-> FALSE]
  /\ users = {}
  /\ bucket = NoBucket
  /\ ui = NoUi
  /\ cached = NoCached
  /\ dbc = NoDbc

SpecGate == InitGate /\ [][GateCall]_vars

\* ------------------------------------------------------------ Prompt model
PromptBody(q, r1, r2, r3, r4, c, f) ==
  [promptQuestion |-> q, resp1 |-> r1, resp2 |-> r2, resp3 |-> r3,
   resp4 |-> r4, createdBy |-> c, isAutoFlagged |-> f]

\* Submitted bodies: complete ones with and without gaps among the options,
\* with either value of a client-supplied isAutoFlagged, and bodies lacking
\* the question, the creator, or everything.
PromptBodies ==
  {PromptBody("q", "a", "b", "", "", "u1", FALSE),
   PromptBody("q", "", "b", "", "d", "u1", TRUE),
   PromptBody("", "a", "", "", "", "u1", FALSE),
   PromptBody("q", "", "", "", "", "", TRUE),
   PromptBody("", "", "", "", "", "", FALSE)}

\* [promptQuestion, resp1, resp2, resp3, resp4].filter(Boolean)
RECURSIVE FilterBoolean(_)
FilterBoolean(texts) ==
  IF texts = <<>> THEN <<>>
  ELSE IF Head(texts) = "" THEN FilterBoolean(Tail(texts))
  ELSE <<Head(texts)>> \o FilterBoolean(Tail(texts))

BodyTexts(body) ==
  <<body.promptQuestion, body.resp1, body.resp2, body.resp3, body.resp4>>

\* PromptSchema: promptQuestion and createdBy are required.
MissingRequired(body) ==
  {f \in {"promptQuestion", "createdBy"} : body[f] = ""}

\* The message of mongoose's ValidationError names each failing path.
ValidationMessage(missing) ==
  IF missing = {"promptQuestion"} THEN "Path promptQuestion is required."
  ELSE IF missing = {"createdBy"} THEN "Path createdBy is required."
  ELSE "Path promptQuestion is required., Path createdBy is required."

\* The document Prompt.create(req.body) stores: the flags the body does not
\* set take the schema defaults.
NewPrompt(id, body) ==
  [id |-> id, promptQuestion |-> body.promptQuestion, resp1 |-> body.resp1,
   resp2 |-> body.resp2, resp3 |-> body.resp3, resp4 |-> body.resp4,
   createdBy |-> body.createdBy, isReported |-> FALSE, isArchived |-> FALSE,
   isAutoFlagged |-> body.isAutoFlagged]

\* Prompt.create(req.body) stores the _id of the body when the body has one
\* (field id here, 0 when absent); otherwise the store generates a fresh id.
SuppliedId(body) == IF "id" \in DOMAIN body THEN body.id ELSE 0
NewId(body, fresh) == IF SuppliedId(body) # 0 THEN SuppliedId(body) ELSE fresh

\* POST /api/prompt: arrival, destructuring, textsToCheck.
PostPromptArriveWith(r, bodies) ==
  /\ CanArrive(r)
  /\ \E body \in bodies :
       /\ req' = [req EXCEPT ![r] =
            [route |-> "prompt", method |-> "POST", body |-> body, sent |-> body]]
       /\ loc' = [loc EXCEPT ![r].textsToCheck = FilterBoolean(BodyTexts(body)),
                             ![r].autoFlagged = FALSE]
       /\ pc' = [pc EXCEPT ![r] =
            IF FilterBoolean(BodyTexts(body)) = <<>> THEN "create" ELSE "moderate"]
  /\ UNCHANGED <<responses, prompts, nextId, res, prior, gate, users, bucket, ui, cached, dbc>>

PostPromptArrive(r) == PostPromptArriveWith(r, PromptBodies)

\* A loop without the break: it goes on while texts are left.
LoopIgnoresVerdict(value, idx, n) == idx < n

\* for (const text of textsToCheck) { if (await isInappropriate(text))
\* { autoFlagged = true; break; } }: after the text at idx, the loop goes on
\* when the text was judged appropriate and texts are left.
LoopContinues(value, idx, n) == ~value /\ idx < n

\* One iteration of the moderation loop: await isInappropriate(text).
PostPromptModerate(r) ==
  /\ pc[r] = "moderate"
  /\ LET text == loc[r].textsToCheck[loc[r].idx]
     IN \E o \in SampleOutcomes :
          LET result == isInappropriate(o)
              call == [text |-> text, rejected |-> result.rejected,
                       value |-> result.value]
              logged == [loc EXCEPT ![r].calls = Append(@, call),
                                    ![r].failed = @ \/ Failed(o)]
          IN IF result.rejected
             THEN /\ loc' = logged
                  /\ Finish(r, Json(400, FALSE, "", ClassifierErrMsg, NoPrompt))
             ELSE /\ loc' = [logged EXCEPT ![r].autoFlagged = @ \/ result.value,
                                            ![r].idx = @ + 1]
                  /\ pc' = [pc EXCEPT ![r] =
                       IF LoopContinues(result.value, loc[r].idx,
                                        Len(loc[r].textsToCheck))
                       THEN "moderate" ELSE "create"]
                  /\ UNCHANGED res
  /\ UNCHANGED <<responses, prompts, nextId, req, prior, gate, users, bucket, ui, cached, dbc>>

\* A handler that stores the body as it was sent.
KeepSentFlag(body, autoFlagged) == body

\* req.body.isAutoFlagged = autoFlagged
SetAutoFlagged(body, autoFlagged) == [body EXCEPT !.isAutoFlagged = autoFlagged]

\* await Prompt.create(req.body) and the 201 reply.
PostPromptCreate(r) ==
  /\ pc[r] = "create"
  /\ req[r].route = "prompt"
  /\ LET body == SetAutoFlagged(req[r].body, loc[r].autoFlagged)
         newPrompt == NewPrompt(NewId(body, nextId), body)
     IN /\ req' = [req EXCEPT ![r].body = body]
        /\ IF MissingRequired(body) # {}
           THEN /\ Finish(r, Json(400, FALSE, "",
                                  ValidationMessage(MissingRequired(body)), NoPrompt))
                /\ UNCHANGED <<prompts, nextId, loc>>
           ELSE \E fault \in BOOLEAN :
                  IF fault
                  THEN /\ loc' = [loc EXCEPT ![r].fault = TRUE]
                       /\ Finish(r, Json(400, FALSE, "", StorageErrMsg, NoPrompt))
                       /\ UNCHANGED <<prompts, nextId>>
                  ELSE IF \E p \in prompts : p.id = newPrompt.id
                  THEN /\ Finish(r, Json(400, FALSE, "", DuplicateErrMsg, NoPrompt))
                       /\ UNCHANGED <<prompts, nextId, loc>>
                  ELSE /\ prompts' = prompts \cup {newPrompt}
                       /\ nextId' = IF SuppliedId(body) # 0 THEN nextId ELSE nextId + 1
                       /\ Finish(r, Json(201, TRUE,
                                         IF loc[r].autoFlagged THEN PendingMsg ELSE "",
                                         "", newPrompt))
                       /\ UNCHANGED loc
  /\ UNCHANGED <<responses, prior, gate, users, bucket, ui, cached, dbc>>

\* PUT /api/prompt: const { id, ...updateData } = req.body;
\* await Prompt.findByIdAndUpdate(id, updateData, { new: true }).
PutUpdates == [field : {"isReported", "isArchived"}, value : BOOLEAN]

\* An update that replaces the document by a fresh one carrying the flag.
ReplaceDocument(p, u) == [NewPrompt(p.id, p) EXCEPT ![u.field] = u.value]
\* $set of the one field of updateData.
ApplyUpdate(p, u) == [p EXCEPT ![u.field] = u.value]

PutPromptFrom(r, issuers) ==
  /\ CanArrive(r)
  /\ \E id \in PromptRefs, u \in PutUpdates, fault \in BOOLEAN, by \in issuers :
       /\ req' = [req EXCEPT ![r] =
            [route |-> "prompt", method |-> "PUT", body |-> [id |-> id, update |-> u],
             sent |-> [id |-> id, update |-> u], by |-> by]]
       /\ IF fault
          THEN /\ loc' = [loc EXCEPT ![r].fault = TRUE]
               /\ Finish(r, Json(400, FALSE, "", StorageErrMsg, NoPrompt))
               /\ UNCHANGED prompts
          ELSE IF \E p \in prompts : p.id = id
          THEN LET p == CHOOSE x \in prompts : x.id = id
               IN /\ prompts' = (prompts \ {p}) \cup {ApplyUpdate(p, u)}
                  /\ Finish(r, Json(200, TRUE, "", "", ApplyUpdate(p, u)))
                  /\ loc' = [loc EXCEPT ![r].before = p]
          ELSE /\ Finish(r, Json(404, FALSE, "Prompt not found", "", NoPrompt))
               /\ UNCHANGED <<prompts, loc>>
  /\ UNCHANGED <<responses, nextId, prior, gate, users, bucket, ui, cached, dbc>>

\* GET /api/prompt: await Prompt.findById(id) when an id is given, else
\* await Prompt.find({}).
GetPrompt(r) ==
  /\ CanArrive(r)
  /\ \E id \in PromptRefs \cup {0}, fault \in BOOLEAN :
       /\ req' = [req EXCEPT ![r] =
            [route |-> "prompt", method |-> "GET", body |-> [id |-> id],
             sent |-> [id |-> id]]]
       /\ IF fault
          THEN /\ loc' = [loc EXCEPT ![r].fault = TRUE]
               /\ Finish(r, Json(400, FALSE, "", StorageErrMsg, NoPrompt))
          ELSE IF id = 0
          THEN /\ Finish(r, Json(200, TRUE, "", "", prompts))
               /\ UNCHANGED loc
          ELSE IF \E p \in prompts : p.id = id
          THEN /\ Finish(r, Json(200, TRUE, "", "", CHOOSE p \in prompts : p.id = id))
               /\ UNCHANGED loc
          ELSE /\ Finish(r, Json(404, FALSE, "Prompt not found", "", NoPrompt))
               /\ UNCHANGED loc
  /\ UNCHANGED <<responses, prompts, nextId, prior, gate, users, bucket, ui, cached, dbc>>

\* The views filter the list that GET /api/prompt returned.
\* A feed that forgets the automatic flag.
DefaultFeedShowsFlagged(list) == {p \in list : ~p.isArchived}
\* Front: prompts.filter(prompt => !prompt.isArchived && !prompt.isAutoFlagged)
DefaultFeed(list) == {p \in list : ~p.isArchived /\ ~p.isAutoFlagged}
\* Archived: prompts.filter(prompt => prompt.isArchived)
ArchivedView(list) == {p \in list : p.isArchived}
\* Reported: prompts.filter(prompt => prompt.isReported)
ReportedView(list) == {p \in list : p.isReported}

\* A deletion that takes the prompt's responses with it.
CascadeDelete(coll, id) == {x \in coll : x.promptId # id}
\* Prompt.findByIdAndDelete touches the Prompt collection only: the
\* UserResponse collection after it.
AfterDelete(coll, id) == coll

\* DELETE /api/prompt?id=...: await Prompt.findByIdAndDelete(id).
DeletePromptFrom(r, issuers) ==
  /\ CanArrive(r)
  /\ \E id \in PromptRefs \cup {0}, fault \in BOOLEAN, by \in issuers :
       /\ req' = [req EXCEPT ![r] =
            [route |-> "prompt", method |-> "DELETE", body |-> [id |-> id],
             sent |-> [id |-> id], by |-> by]]
       /\ IF id = 0
          THEN /\ Finish(r, Json(400, FALSE, "ID is required for deletion", "", NoPrompt))
               /\ UNCHANGED <<prompts, loc>>
          ELSE IF fault
          THEN /\ loc' = [loc EXCEPT ![r].fault = TRUE]
               /\ Finish(r, Json(400, FALSE, "", StorageErrMsg, NoPrompt))
               /\ UNCHANGED prompts
          ELSE IF \E p \in prompts : p.id = id
          THEN /\ prompts' = {p \in prompts : p.id # id}
               /\ Finish(r, Json(200, TRUE, "", "", NoPrompt))
               /\ UNCHANGED loc
          ELSE /\ Finish(r, Json(404, FALSE, "Prompt not found", "", NoPrompt))
               /\ UNCHANGED <<prompts, loc>>
       /\ responses' = AfterDelete(responses, id)
  /\ UNCHANGED <<nextId, prior, gate, users, bucket, ui, cached, dbc>>

\* The handlers read the Authorization header only to log it: who issues a
\* PUT or DELETE has no influence on it.  One issuer stands for all.
PutPrompt(r) == PutPromptFrom(r, {"u1"})
DeletePrompt(r) == DeletePromptFrom(r, {"u1"})

Init ==
  /\ responses = {}
  /\ prompts = {}
  /\ nextId = 1
  /\ req = [r \in Requests |-> NoReq]
  /\ pc = [r \in Requests |-> "idle"]
  /\ loc = [r \in Requests |-> NoLoc]
  /\ res = [r \in Requests |-> NoRes]
  /\ prior = [r \in Requests |-> NoRec]
  /\ gate = [outcome |-> [kind |-> "none", cats |-> <<>>], called |-> FALSE,
             rejected |-> FALSE, value |-> FALSE]
  /\ users = {}
  /\ bucket = NoBucket
  /\ ui = NoUi
  /\ cached = NoCached
  /\ dbc = NoDbc

NextResponses ==
  \E r \in Requests :
    \/ PostResponseArrive(r)
    \/ PostResponseFindOne(r)
    \/ PostResponseCreate(r)
    \/ PostResponseCatchFindOne(r)

NextPrompts ==
  \E r \in Requests :
    \/ PostPromptArrive(r)
    \/ PostPromptModerate(r)
    \/ PostPromptCreate(r)
    \/ PutPrompt(r)
    \/ DeletePrompt(r)

Next == NextResponses \/ NextPrompts

\* The response recorder alone, the prompt routes alone, and both.
SpecResponses == Init /\ [][NextResponses]_vars
SpecPrompts == Init /\ [][NextPrompts]_vars
Spec == Init /\ [][Next]_vars

\* ------------------------------------------------------------- User model
User(clerkId, gender, position, year, isMod) ==
  [clerkId |-> clerkId, email |-> clerkId, gender |-> gender,
   position |-> position, year |-> year, accountCreated |-> TRUE,
   isMod |-> isMod]

\* Stored users: a moderator with a complete profile and a plain user whose
\* profile has no gender, no position and birth year 0; or the moderator only.
UserPopulations ==
  {{User("u1", "F", "Student", 2004, TRUE), User("u2", "", "", 0, FALSE)},
   {User("u1", "F", "Student", 2004, TRUE)}}

\* Stored prompts: one published, one auto-flagged at creation.
SeedPrompts ==
  {NewPrompt(1, PromptBody("q", "Yes", "No", "", "", "u1", FALSE)),
   NewPrompt(2, PromptBody("w", "Yes", "No", "", "", "u2", TRUE))}

\* Stored responses: none, or one answer of u1 to prompt 1.
SeedResponses ==
  {{}, {[id |-> 3, userId |-> "u1", promptId |-> 1, selectedResponse |-> "Yes"]}}

\* A store that already holds users, prompts and responses.
InitSeeded ==
  /\ responses \in SeedResponses
  /\ prompts = SeedPrompts
  /\ nextId = 3 + Cardinality(responses)
  /\ req = [r \in Requests |-> NoReq]
  /\ pc = [r \in Requests |-> "idle"]
  /\ loc = [r \in Requests |-> NoLoc]
  /\ res = [r \in Requests |-> NoRes]
  /\ prior = [r \in Requests |-> NoRec]
  /\ gate = [outcome |-> [kind |-> "none", cats |-> <<>>], called |-> FALSE,
             rejected |-> FALSE, value |-> FALSE]
  /\ users \in UserPopulations
  /\ bucket = NoBucket
  /\ ui = NoUi
  /\ cached = NoCached
  /\ dbc = NoDbc

\* ------------------------------------------------- GET /api/user-responses
\* One await: findOne({ userId, promptId }) when promptId is given, else
\* find({ userId }).
GetResponses(r) ==
  /\ CanArrive(r)
  /\ \E userId \in {"", "u1"}, promptId \in {0, 1}, fault \in BOOLEAN :
       /\ req' = [req EXCEPT ![r] =
            [route |-> "user-responses", method |-> "GET",
             body |-> [userId |-> userId, promptId |-> promptId],
             sent |-> [userId |-> userId, promptId |-> promptId]]]
       /\ IF userId = ""
          THEN /\ Finish(r, Json(400, FALSE, "User ID is required", "", NoRec))
               /\ UNCHANGED loc
          ELSE IF fault
          THEN /\ loc' = [loc EXCEPT ![r].fault = TRUE]
               /\ Finish(r, Json(400, FALSE, "", StorageErrMsg, NoRec))
          ELSE IF promptId # 0
          THEN /\ \E response \in FindOneResults(responses, userId, promptId) :
                    Finish(r, Json(200, TRUE, "", "", response))
               /\ UNCHANGED loc
          ELSE /\ Finish(r, Json(200, TRUE, "", "",
                                 {x \in responses : x.userId = userId}))
               /\ UNCHANGED loc
  /\ UNCHANGED <<responses, prompts, nextId, prior, gate, users, bucket, ui, cached, dbc>>

\* ----------------------------------------------------- GET /api/prompt-stats
CurrentYears == {2025, 2026}

\* Buckets whose upper limits include the next boundary.
AgeGroupBoundaryLow(age) ==
  IF age <= 18 THEN "Under 18"
  ELSE IF age <= 25 THEN "18-24"
  ELSE IF age <= 35 THEN "25-34"
  ELSE IF age <= 45 THEN "35-44"
  ELSE IF age <= 55 THEN "45-54"
  ELSE "55+"
\* if (age < 18) ... else if (age >= 18 && age <= 24) ... else '55+'
AgeGroup(age) ==
  IF age < 18 THEN "Under 18"
  ELSE IF age >= 18 /\ age <= 24 THEN "18-24"
  ELSE IF age >= 25 /\ age <= 34 THEN "25-34"
  ELSE IF age >= 35 /\ age <= 44 THEN "35-44"
  ELSE IF age >= 45 /\ age <= 54 THEN "45-54"
  ELSE "55+"

\* if (user.year) { age = currentYear - user.year; ... }: the bucket a user
\* is counted in, "" when the user is not counted.
YearBucket(year, currentYear) ==
  IF year = 0 THEN "" ELSE AgeGroup(currentYear - year)

\* The documents of a find in the order the store returns them (insertion
\* order, which is the order of the ids).
RECURSIVE SeqById(_)
SeqById(S) ==
  IF S = {} THEN <<>>
  ELSE LET x == CHOOSE x \in S : \A y \in S : x.id <= y.id
       IN <<x>> \o SeqById(S \ {x})

\* A grouping that starts a fresh list for every response.
PushUserOverwrites(byAnswer, answer, userId) ==
  IF \E i \in DOMAIN byAnswer : byAnswer[i].answer = answer
  THEN [i \in DOMAIN byAnswer |->
          IF byAnswer[i].answer = answer
          THEN [byAnswer[i] EXCEPT !.userIds = <<userId>>]
          ELSE byAnswer[i]]
  ELSE Append(byAnswer, [answer |-> answer, userIds |-> <<userId>>])
\* if (!responsesByAnswer[selectedResponse]) responsesByAnswer[...] = [];
\* responsesByAnswer[selectedResponse].push(userId);
\* The object is kept as the sequence of its entries in insertion order.
PushUser(byAnswer, answer, userId) ==
  IF \E i \in DOMAIN byAnswer : byAnswer[i].answer = answer
  THEN [i \in DOMAIN byAnswer |->
          IF byAnswer[i].answer = answer
          THEN [byAnswer[i] EXCEPT !.userIds = Append(@, userId)]
          ELSE byAnswer[i]]
  ELSE Append(byAnswer, [answer |-> answer, userIds |-> <<userId>>])

\* responses.forEach(response => { ... })
RECURSIVE GroupByAnswer(_, _)
GroupByAnswer(rs, byAnswer) ==
  IF rs = <<>> THEN byAnswer
  ELSE GroupByAnswer(Tail(rs),
         PushUser(byAnswer, Head(rs).selectedResponse, Head(rs).userId))

\* counter[key] = (counter[key] || 0) + 1
Inc(counter, key) ==
  IF key \in DOMAIN counter THEN [counter EXCEPT ![key] = @ + 1]
  ELSE counter @@ (key :> 1)

\* A tally that counts absent values as a category.
IncAlways(counter, key) == Inc(counter, key)
\* if (user.gender) { ... }: absent values are not counted.
IncIf(counter, key) == IF key = "" THEN counter ELSE Inc(counter, key)

RECURSIVE SeqOf(_)
SeqOf(S) ==
  IF S = {} THEN <<>>
  ELSE LET x == CHOOSE x \in S : TRUE IN <<x>> \o SeqOf(S \ {x})

\* users.forEach(user => { gender, position and age-group counters })
RECURSIVE Tally(_, _, _)
Tally(us, currentYear, demographics) ==
  IF us = <<>> THEN demographics
  ELSE Tally(Tail(us), currentYear,
         [gender |-> IncIf(demographics.gender, Head(us).gender),
          position |-> IncIf(demographics.position, Head(us).position),
          year |-> IncIf(demographics.year,
                         YearBucket(Head(us).year, currentYear))])

NoDemographics == [gender |-> EmptyMap, position |-> EmptyMap, year |-> EmptyMap]

\* The age bucketing of one user on its own.
BucketCall ==
  /\ ~bucket.called
  /\ bucket' = [bucket EXCEPT
       !.called = TRUE,
       !.group = YearBucket(bucket.year, bucket.currentYear),
       !.counted = Tally(<<User("u1", "", "", bucket.year, FALSE)>>,
                         bucket.currentYear, NoDemographics).year]
  /\ UNCHANGED <<responses, prompts, nextId, req, pc, loc, res, prior, gate, users,
                 ui, cached, dbc>>

BirthYears == {0} \cup (1960..2030)

InitAge ==
  /\ responses = {}
  /\ prompts = {}
  /\ nextId = 1
  /\ req = [r \in Requests |-> NoReq]
  /\ pc = [r \in Requests |-> "idle"]
  /\ loc = [r \in Requests |-> NoLoc]
  /\ res = [r \in Requests |-> NoRes]
  /\ prior = [r \in Requests |-> NoRec]
  /\ gate = [outcome |-> [kind |-> "none", cats |-> <<>>], called |-> FALSE,
             rejected |-> FALSE, value |-> FALSE]
  /\ users = {}
  /\ \E y \in BirthYears, c \in CurrentYears :
       bucket = [NoBucket EXCEPT !.year = y, !.currentYear = c]
  /\ ui = NoUi
  /\ cached = NoCached
  /\ dbc = NoDbc

SpecAge == InitAge /\ [][BucketCall]_vars

Range(f) == {f[i] : i \in DOMAIN f}

\* User.find({ clerkId: { $in: userIds } })
UsersIn(coll, userIds) == {u \in coll : u.clerkId \in Range(userIds)}

\* A query that consumes what it reads.
AfterFindAndDelete(coll) == {}
\* What the queries of the statistics handler leave in a collection.
AfterFind(coll) == coll

Stats(responseCount, hasEnoughData, answerStats) ==
  [responseCount |-> responseCount, hasEnoughData |-> hasEnoughData,
   answerStats |-> answerStats]

\* A threshold of two responses.
HasEnoughDataAboveOne(totalResponses) == totalResponses > 1
\* const hasEnoughData = totalResponses > 0;
HasEnoughData(totalResponses) == totalResponses > 0

\* A reply that treats a prompt without responses as an error.
NoResponsesIsError == Json(404, FALSE, "No responses found", "", NoRec)
\* The reply for a prompt without responses.
EmptyReply == Json(200, TRUE, "", "", Stats(0, FALSE, EmptyMap))

\* Arrival: method check and promptId check.
GetStatsArrive(r) ==
  /\ CanArrive(r)
  /\ \E method \in {"GET", "POST"}, promptId \in PromptRefs \cup {0} :
       /\ (method = "POST" => promptId = 1)
       /\ req' = [req EXCEPT ![r] =
            [route |-> "prompt-stats", method |-> method,
             body |-> [promptId |-> promptId], sent |-> [promptId |-> promptId]]]
       /\ IF method # "GET"
          THEN Finish(r, Json(405, FALSE, "Method not allowed", "", NoRec))
          ELSE IF promptId = 0
          THEN Finish(r, Json(400, FALSE, "Prompt ID is required", "", NoRec))
          ELSE /\ pc' = [pc EXCEPT ![r] = "statsFind"]
               /\ UNCHANGED res
  /\ UNCHANGED <<responses, prompts, nextId, loc, prior, gate, users, bucket, ui, cached, dbc>>

\* const responses = await UserResponse.find({ promptId }); the empty
\* reply, or the grouping by answer.
GetStatsFind(r) ==
  /\ pc[r] = "statsFind"
  /\ \E fault \in BOOLEAN :
       IF fault
       THEN /\ loc' = [loc EXCEPT ![r].fault = TRUE]
            /\ Finish(r, Json(500, FALSE, "", StorageErrMsg, NoRec))
       ELSE LET found == {x \in responses : x.promptId = req[r].body.promptId}
            IN IF found = {}
               THEN /\ Finish(r, EmptyReply)
                    /\ UNCHANGED loc
               ELSE /\ loc' = [loc EXCEPT
                         ![r].responses = found,
                         ![r].responsesByAnswer = GroupByAnswer(SeqById(found), <<>>)]
                    /\ pc' = [pc EXCEPT ![r] = "statsUsers"]
                    /\ UNCHANGED res
  /\ responses' = AfterFind(responses)
  /\ UNCHANGED <<prompts, nextId, req, prior, gate, users, bucket, ui, cached, dbc>>

\* One iteration of the loop over Object.entries(responsesByAnswer):
\* await User.find(...), the tally, answerStats[answer]; after the last
\* entry, the reply.
GetStatsUsers(r) ==
  /\ pc[r] = "statsUsers"
  /\ LET entry == loc[r].responsesByAnswer[loc[r].idx]
     IN \E fault \in BOOLEAN, currentYear \in CurrentYears :
          IF fault
          THEN /\ loc' = [loc EXCEPT ![r].fault = TRUE]
               /\ Finish(r, Json(500, FALSE, "", StorageErrMsg, NoRec))
          ELSE LET demographics ==
                     Tally(SeqOf(UsersIn(users, entry.userIds)), currentYear,
                           NoDemographics)
                   answerStats ==
                     (entry.answer :> [count |-> Len(entry.userIds),
                                       demographics |-> demographics])
                       @@ loc[r].answerStats
                   totalResponses == Len(SeqById(loc[r].responses))
               IN /\ loc' = [loc EXCEPT ![r].answerStats = answerStats,
                                        ![r].idx = @ + 1]
                  /\ IF loc[r].idx < Len(loc[r].responsesByAnswer)
                     THEN UNCHANGED <<pc, res>>
                     ELSE Finish(r, Json(200, TRUE, "", "",
                            Stats(totalResponses, HasEnoughData(totalResponses),
                                  answerStats)))
  /\ users' = AfterFind(users)
  /\ UNCHANGED <<responses, prompts, nextId, req, prior, gate, bucket, ui, cached, dbc>>

NextStats ==
  \E r \in Requests :
    \/ GetStatsArrive(r)
    \/ GetStatsFind(r)
    \/ GetStatsUsers(r)

\* Every route that reads or writes the UserResponse collection, together
\* with the deletion of prompts.
NextAnswers ==
  \/ NextResponses
  \/ NextStats
  \/ \E r \in Requests : GetResponses(r) \/ DeletePrompt(r)

SpecAnswers == InitSeeded /\ [][NextAnswers]_vars

\* --------------------------------------------------------- prompt lifecycle
\* A complete submission, without and with an _id chosen by the client.
LifecycleBodies ==
  {PromptBody("q", "a", "", "", "", "u1", FALSE),
   [id |-> 1] @@ PromptBody("q", "a", "", "", "", "u1", FALSE)}

InitLifecycle ==
  /\ InitSeeded
  /\ responses # {}
  /\ Cardinality(users) = 2

\* The prompt routes on stored prompts: flag updates, deletion, reads and
\* submissions.
NextLifecycle ==
  \E r \in Requests :
    \/ PutPrompt(r)
    \/ DeletePrompt(r)
    \/ GetPrompt(r)
    \/ PostPromptArriveWith(r, LifecycleBodies)
    \/ PostPromptModerate(r)
    \/ PostPromptCreate(r)

SpecLifecycle == InitLifecycle /\ [][NextLifecycle]_vars

\* Flag updates and deletions issued by moderators and by plain users.
NextModeration ==
  \E r \in Requests :
    \/ PutPromptFrom(r, UserIds)
    \/ DeletePromptFrom(r, UserIds)

SpecModeration == InitLifecycle /\ [][NextModeration]_vars

\* Every modelled route on a populated store.
NextStore ==
  \/ NextResponses
  \/ NextStats
  \/ \E r \in Requests : GetResponses(r)
  \/ NextLifecycle

SpecStore == InitLifecycle /\ [][NextStore]_vars

\* ------------------------------------------------------------ properties
IsResponsePost(r) == req[r].route = "user-responses" /\ req[r].method = "POST"
IsPromptPost(r) == req[r].route = "prompt" /\ req[r].method = "POST"

AllFieldsGiven(body) ==
  body.userId # "" /\ body.promptId # 0 /\ body.selectedResponse # ""

\* C1: in every reachable state, whatever the interleaving of concurrent
\* POST /api/user-responses requests, the UserResponse collection holds at
\* most one record for each (userId, promptId) pair.
C1_AtMostOnePerPair ==
  \A x, y \in responses :
    (x.userId = y.userId /\ x.promptId = y.promptId) => x = y

\* Two requests for the same pair both passed the pre-check; one has
\* inserted and the other's insert was rejected by the index.
C1_Witness ==
  \E r, q \in Requests :
    /\ r # q
    /\ IsResponsePost(r) /\ IsResponsePost(q)
    /\ req[r].body.userId = req[q].body.userId
    /\ req[r].body.promptId = req[q].body.promptId
    /\ res[r].status = 201
    /\ prior[q] = NoRec
    /\ pc[q] = "catchFindOne"

\* C2: once a response is stored for (userId, promptId), every later
\* submission for that pair that carries a selectedResponse, the same or a
\* different one, and whose lookup the store answers, ends with status 400,
\* success=false, the message 'User has already responded to this prompt'
\* and the originally stored record as data; that record stays stored as it
\* was.
C2_LaterSubmissionRejected ==
  \A r \in Requests :
    (IsResponsePost(r) /\ prior[r] # NoRec) =>
      /\ prior[r] \in responses
      /\ (pc[r] = "done" /\ AllFieldsGiven(req[r].sent) /\ ~loc[r].fault) =>
           res[r] = Json(400, FALSE, AlreadyMsg, "", prior[r])

\* A later submission with a different answer has been rejected.
C2_Witness ==
  \E r \in Requests :
    /\ IsResponsePost(r) /\ pc[r] = "done" /\ ~loc[r].fault
    /\ prior[r] # NoRec
    /\ req[r].sent.selectedResponse # ""
    /\ req[r].sent.selectedResponse # prior[r].selectedResponse
    /\ res[r].data = prior[r]

\* C3: a submission whose insert the store rejected with the duplicate-key
\* error 11000 (it lost a race after passing the pre-check) is answered like
\* the pre-check path: status 400, success=false, the 'already responded'
\* message, and as data the stored record of the pair, which is not null.
C3_RaceLoserRejected ==
  \A r \in Requests :
    (IsResponsePost(r) /\ pc[r] = "done"
       /\ loc[r].errorCode = DUPLICATE_KEY /\ ~loc[r].fault) =>
      /\ res[r].status = 400
      /\ res[r].success = FALSE
      /\ res[r].message = AlreadyMsg
      /\ res[r].error = ""
      /\ res[r].data # NoRec
      /\ res[r].data \in responses
      /\ res[r].data.userId = req[r].sent.userId
      /\ res[r].data.promptId = req[r].sent.promptId
      /\ \E q \in Requests :
           q # r /\ res[q].status = 201 /\ res[q].data = res[r].data

\* The loser of a race has been answered; it had chosen another answer than
\* the winner.
C3_Witness ==
  \E r \in Requests :
    /\ IsResponsePost(r) /\ pc[r] = "done" /\ prior[r] = NoRec
    /\ loc[r].errorCode = DUPLICATE_KEY
    /\ res[r].status = 400
    /\ res[r].data # NoRec
    /\ res[r].data.selectedResponse # req[r].sent.selectedResponse

\* C4: for a classifier reply that is a list of (category, confidence)
\* pairs, isInappropriate resolves to true exactly when some confidence is
\* at least 0.7; with every confidence below 0.7, or no category, to false.
C4_ThresholdIff ==
  (gate.called /\ gate.outcome.kind = "list") =>
    /\ ~gate.rejected
    /\ gate.value <=>
         (\E i \in 1..Len(gate.outcome.cats) : gate.outcome.cats[i] >= 70)

\* A list whose highest confidence is exactly 0.7 was judged inappropriate.
C4_Witness ==
  /\ gate.called /\ gate.outcome.kind = "list"
  /\ \E i \in 1..Len(gate.outcome.cats) : gate.outcome.cats[i] = 70
  /\ \A i \in 1..Len(gate.outcome.cats) : gate.outcome.cats[i] <= 70
  /\ gate.value

\* C5: when the classifier interaction fails (the credentials or the client
\* cannot be obtained, the request fails, or the reply carries no category
\* list), isInappropriate resolves to true; it neither rejects nor resolves
\* to false.
C5_FailsClosed ==
  (gate.called /\ Failed(gate.outcome)) => (~gate.rejected /\ gate.value)

\* C6: a POST /api/prompt with its required fields during which a
\* classifier interaction failed, and whose write the store accepted, ends
\* with status 201 and a stored prompt with isAutoFlagged=true.
C6_ClassifierFailureNotSurfaced ==
  \A r \in Requests :
    (IsPromptPost(r) /\ pc[r] = "done" /\ MissingRequired(req[r].sent) = {}
       /\ loc[r].failed /\ ~loc[r].fault) =>
      /\ res[r].status = 201
      /\ res[r].data.isAutoFlagged = TRUE

\* Some text of the submission was judged inappropriate.
Judged(calls) ==
  \E i \in 1..Len(calls) : ~calls[i].rejected /\ calls[i].value

C7_WitnessFlagged ==
  \E r \in Requests :
    /\ IsPromptPost(r) /\ pc[r] = "done" /\ res[r].status = 201
    /\ req[r].sent.isAutoFlagged = FALSE
    /\ res[r].data.isAutoFlagged = TRUE
    /\ res[r].message = PendingMsg

NonEmpty(text) == text # ""

\* The texts of a submission that are to be screened, in order.
Screened(r) == SelectSeq(BodyTexts(req[r].sent), NonEmpty)

C9_MissingFieldClientError ==
  \A r \in Requests :
    (IsPromptPost(r) /\ pc[r] = "done" /\ MissingRequired(req[r].sent) # {}) =>
      /\ res[r].status >= 400 /\ res[r].status < 500
      /\ res[r].success = FALSE
      /\ res[r].error = ValidationMessage(MissingRequired(req[r].sent))
      /\ res[r].data \notin prompts

\* C10: a request whose store operation failed (neither a validation error
\* nor a duplicate key) ends with status 500 and the store's error message.
C10_StorageFailureIsServerError ==
  \A r \in Requests :
    (pc[r] = "done" /\ loc[r].fault) =>
      (res[r].status = 500 /\ res[r].error = StorageErrMsg)

IsStatsGet(r) ==
  /\ req[r].route = "prompt-stats"
  /\ req[r].method = "GET"
  /\ req[r].body.promptId # 0

StoredForPrompt(promptId) == {x \in responses : x.promptId = promptId}

\* C11: when the store holds no response for the promptId of a statistics
\* request (whether or not a prompt with that id exists), the query that
\* the store answers ends the request with status 200, success = true,
\* responseCount = 0, hasEnoughData = false and an empty answerStats; and a
\* statistics request that met no storage failure never ends in an error.
C11_ZeroResponsesEmptyStats ==
  /\ [](\A r \in Requests :
          (pc[r] = "done" /\ IsStatsGet(r) /\ ~loc[r].fault)
            => (res[r].status = 200 /\ res[r].success /\ res[r].error = ""))
  /\ [][\A r \in Requests :
          (/\ pc[r] = "statsFind"
           /\ pc'[r] # "statsFind"
           /\ ~loc'[r].fault
           /\ StoredForPrompt(req[r].body.promptId) = {})
            => (/\ pc'[r] = "done"
                /\ res'[r].status = 200
                /\ res'[r].success
                /\ res'[r].error = ""
                /\ res'[r].data.responseCount = 0
                /\ ~res'[r].data.hasEnoughData
                /\ DOMAIN res'[r].data.answerStats = {})]_vars

\* A statistics request for an id that no prompt has, while responses to
\* another prompt are stored, ended with the empty statistics.
C11_Witness ==
  \E r \in Requests :
    /\ pc[r] = "done"
    /\ IsStatsGet(r)
    /\ \A p \in prompts : p.id # req[r].body.promptId
    /\ responses # {}
    /\ StoredForPrompt(req[r].body.promptId) = {}
    /\ res[r].status = 200
    /\ res[r].data.responseCount = 0

RECURSIVE SumCounts(_, _)
SumCounts(answerStats, keys) ==
  IF keys = {} THEN 0
  ELSE LET k == CHOOSE k \in keys : TRUE
       IN answerStats[k].count + SumCounts(answerStats, keys \ {k})

\* C12: the statistics of a request are those of the responses the store
\* held for the prompt when the request queried it: responseCount is their
\* number N, the counts of the answerStats entries add up to N, there is an
\* entry for exactly the answers that occur, and each entry's count is the
\* number of those responses with that selectedResponse.
C12_CountsAddUp ==
  /\ [](\A r \in Requests :
          (pc[r] = "done" /\ IsStatsGet(r) /\ res[r].status = 200)
            => LET S == loc[r].responses
                   d == res[r].data
               IN /\ d.responseCount = Cardinality(S)
                  /\ SumCounts(d.answerStats, DOMAIN d.answerStats) = Cardinality(S)
                  /\ DOMAIN d.answerStats = {x.selectedResponse : x \in S}
                  /\ \A a \in DOMAIN d.answerStats :
                       d.answerStats[a].count =
                         Cardinality({x \in S : x.selectedResponse = a}))
  /\ [][\A r \in Requests :
          (pc[r] = "statsFind" /\ pc'[r] # "statsFind" /\ ~loc'[r].fault)
            => loc'[r].responses = StoredForPrompt(req[r].body.promptId)]_vars

\* Statistics over two stored responses with different answers.
C12_Witness ==
  \E r \in Requests :
    /\ pc[r] = "done"
    /\ IsStatsGet(r)
    /\ res[r].status = 200
    /\ res[r].data.responseCount = 2
    /\ DOMAIN res[r].data.answerStats = {"Yes", "No"}
    /\ Cardinality(StoredForPrompt(req[r].body.promptId)) = 2

\* C13: a user with a non-zero birth year is counted in exactly one age
\* bucket, the one of age = current year - birth year: 'Under 18' below 18,
\* '18-24' for 18..24, '25-34' for 25..34, '35-44' for 35..44, '45-54' for
\* 45..54 and '55+' from 55 on, so that 18, 25, 35, 45 and 55 are each in
\* the higher bucket.
C13_AgeBuckets ==
  (bucket.called /\ bucket.year # 0)
    => LET age == bucket.currentYear - bucket.year
       IN /\ (age < 18 <=> bucket.group = "Under 18")
          /\ (age \in 18..24 <=> bucket.group = "18-24")
          /\ (age \in 25..34 <=> bucket.group = "25-34")
          /\ (age \in 35..44 <=> bucket.group = "35-44")
          /\ (age \in 45..54 <=> bucket.group = "45-54")
          /\ (age >= 55 <=> bucket.group = "55+")
          /\ DOMAIN bucket.counted = {bucket.group}
          /\ bucket.counted[bucket.group] = 1

\* A user aged exactly 25 was counted in '25-34'.
C13_Witness ==
  /\ bucket.called
  /\ bucket.year # 0
  /\ bucket.currentYear - bucket.year = 25
  /\ bucket.counted = [k \in {"25-34"} |-> 1]

\* C14: no step of a GET /api/prompt-stats request, whatever its input and
\* whatever its outcome (statistics, missing promptId, wrong method, storage
\* failure), changes the User, Prompt or UserResponse collection.
C14_StatsReadOnly ==
  [][\A r \in Requests :
       (req'[r].route = "prompt-stats" /\ (pc'[r] # pc[r] \/ loc'[r] # loc[r]))
         => (users' = users /\ prompts' = prompts /\ responses' = responses)]_vars

\* One statistics request has reported stored responses and another one
\* has failed on the store, with the collections still populated.
C14_Witness ==
  \E r, q \in Requests :
    /\ pc[r] = "done" /\ IsStatsGet(r)
    /\ res[r].status = 200 /\ res[r].data.responseCount > 0
    /\ pc[q] = "done" /\ IsStatsGet(q)
    /\ res[q].status = 500
    /\ responses # {} /\ users # {} /\ prompts # {}

IsPromptPut(r) == req[r].route = "prompt" /\ req[r].method = "PUT"
IsPromptDelete(r) == req[r].route = "prompt" /\ req[r].method = "DELETE"
IsPromptGet(r) == req[r].route = "prompt" /\ req[r].method = "GET"

\* Request r has just carried out the flag update [field, value] on a
\* stored prompt (this step).
Transition(r, field, value) ==
  /\ pc[r] = "idle"
  /\ pc'[r] = "done"
  /\ IsPromptPut(r)'
  /\ req'[r].body.update = [field |-> field, value |-> value]
  /\ res'[r].status = 200

Archive(r) == Transition(r, "isArchived", TRUE)
Restore(r) == Transition(r, "isArchived", FALSE)
Report(r) == Transition(r, "isReported", TRUE)
ClearReport(r) == Transition(r, "isReported", FALSE)

WithId(list, id) == {p \in list : p.id = id}

\* C15: the default feed is exactly the prompts with isArchived = false and
\* isAutoFlagged = false, the archived view exactly those with isArchived =
\* true, the reported view exactly those with isReported = true.  Archiving
\* a prompt takes it out of the default feed and into the archived view;
\* restoring it takes it out of the archived view and gives it the
\* default-feed membership it had before it was archived.
C15_ViewsFollowFlags ==
  /\ [](\A p \in prompts :
          /\ p \in DefaultFeed(prompts)
               <=> (p.isArchived = FALSE /\ p.isAutoFlagged = FALSE)
          /\ p \in ArchivedView(prompts) <=> p.isArchived = TRUE
          /\ p \in ReportedView(prompts) <=> p.isReported = TRUE)
  /\ [](DefaultFeed(prompts) \cup ArchivedView(prompts) \cup ReportedView(prompts)
          \subseteq prompts)
  /\ [][\A r \in Requests :
          /\ Archive(r) =>
               /\ WithId(DefaultFeed(prompts'), req'[r].body.id) = {}
               /\ WithId(ArchivedView(prompts'), req'[r].body.id) = {res'[r].data}
          /\ Restore(r) =>
               /\ WithId(ArchivedView(prompts'), req'[r].body.id) = {}
               /\ \A a \in Requests :
                    (/\ a < r
                     /\ pc[a] = "done"
                     /\ IsPromptPut(a)
                     /\ req[a].body = [id |-> req'[r].body.id,
                                       update |-> [field |-> "isArchived",
                                                   value |-> TRUE]]
                     /\ res[a].status = 200
                     /\ ~loc[a].before.isArchived)
                      => (WithId(DefaultFeed(prompts'), req'[r].body.id) # {}
                            <=> loc[a].before \in DefaultFeed({loc[a].before}))]_vars

\* A prompt that was in the default feed has been archived by one request
\* and restored by a later one, and is in the default feed again.
C15_Witness ==
  \E a, r \in Requests :
    /\ a < r
    /\ pc[a] = "done" /\ IsPromptPut(a) /\ res[a].status = 200
    /\ req[a].body.update = [field |-> "isArchived", value |-> TRUE]
    /\ loc[a].before \in DefaultFeed({loc[a].before})
    /\ pc[r] = "done" /\ IsPromptPut(r) /\ res[r].status = 200
    /\ req[r].body = [id |-> req[a].body.id,
                      update |-> [field |-> "isArchived", value |-> FALSE]]
    /\ res[r].data \in DefaultFeed(prompts)
    /\ ArchivedView(prompts) = {}

\* C16: report sets isReported = true, archive sets isArchived = true,
\* restore sets isArchived = false, clear-report sets isReported = false;
\* each leaves every other field of the prompt (the other flags, the texts,
\* createdBy), every other prompt, and all users and responses as they
\* were; and no step changes the isAutoFlagged of a stored prompt.
C16_TransitionWritesOwnFlag ==
  [][/\ \A r \in Requests :
          \A u \in PutUpdates :
            Transition(r, u.field, u.value) =>
              \E p \in prompts :
                LET q == res'[r].data
                IN /\ p.id = req'[r].body.id
                   /\ q.id = p.id
                   /\ q \in prompts'
                   /\ q[u.field] = u.value
                   /\ \A f \in DOMAIN p \ {u.field} : q[f] = p[f]
                   /\ DOMAIN q = DOMAIN p
                   /\ prompts' \ {q} = prompts \ {p}
                   /\ users' = users
                   /\ responses' = responses
     /\ \A r \in Requests :
          (Report(r) => res'[r].data.isReported)
            /\ (Archive(r) => res'[r].data.isArchived)
            /\ (Restore(r) => ~res'[r].data.isArchived)
            /\ (ClearReport(r) => ~res'[r].data.isReported)
     /\ \A p \in prompts : \A q \in prompts' :
          q.id = p.id => q.isAutoFlagged = p.isAutoFlagged]_vars

\* A reported prompt has been archived and is still reported.
C16_Witness ==
  \E r \in Requests :
    /\ pc[r] = "done" /\ IsPromptPut(r) /\ res[r].status = 200
    /\ req[r].body.update = [field |-> "isArchived", value |-> TRUE]
    /\ loc[r].before.isReported
    /\ ~loc[r].before.isArchived
    /\ res[r].data.isReported
    /\ res[r].data.isArchived
    /\ res[r].data \in prompts

IsMod(clerkId) == \E u \in users : u.clerkId = clerkId /\ u.isMod

\* C17: a request issued by a user whose isMod flag is false never changes
\* the isArchived flag of a prompt, never resets isReported to false and
\* never removes a prompt.
C17_OnlyModeratorsModerate ==
  [][\A r \in Requests :
       (/\ pc[r] = "idle"
        /\ pc'[r] = "done"
        /\ req'[r].route = "prompt"
        /\ ~IsMod(req'[r].by))
         => \A p \in prompts :
              \E q \in prompts' :
                /\ q.id = p.id
                /\ q.isArchived = p.isArchived
                /\ (p.isReported => q.isReported)]_vars

\* C18: after a successful DELETE of an id no stored prompt has that id, so
\* it is in no list and no view; every later GET by id, PUT and DELETE for
\* the id that the store answers returns 404; and the id never comes back.
C18_DeleteIsTerminal ==
  \A d \in Requests :
    (pc[d] = "done" /\ IsPromptDelete(d) /\ res[d].status = 200)
      => /\ WithId(prompts, req[d].body.id) = {}
         /\ \A r \in Requests :
              (/\ d < r
               /\ pc[r] = "done"
               /\ IsPromptGet(r) \/ IsPromptPut(r) \/ IsPromptDelete(r)
               /\ req[r].body.id = req[d].body.id
               /\ ~loc[r].fault)
                => res[r].status = 404

Deleted(d) == pc[d] = "done" /\ IsPromptDelete(d) /\ res[d].status = 200

\* C19: deleting a prompt leaves every stored response as it was; a later
\* statistics request for the deleted id finds and reports the responses
\* stored for it; and a later submission by a user who has a stored response
\* to the deleted id is rejected with the 'already responded' message.
C19_DeleteDoesNotCascade ==
  /\ [](\A d \in Requests : Deleted(d) =>
          \A r \in Requests :
            /\ (/\ d < r
                /\ pc[r] = "done"
                /\ IsStatsGet(r)
                /\ req[r].body.promptId = req[d].body.id
                /\ ~loc[r].fault)
                 => /\ res[r].status = 200
                    /\ res[r].data.responseCount = Cardinality(loc[r].responses)
                    /\ loc[r].responses \subseteq StoredForPrompt(req[d].body.id)
            /\ (/\ d < r
                /\ pc[r] = "done"
                /\ IsResponsePost(r)
                /\ AllFieldsGiven(req[r].sent)
                /\ req[r].sent.promptId = req[d].body.id
                /\ prior[r] # NoRec
                /\ ~loc[r].fault)
                 => res[r] = Json(400, FALSE, AlreadyMsg, "", prior[r]))
  /\ [][\A r \in Requests :
          /\ (pc[r] = "idle" /\ pc'[r] = "done" /\ IsPromptDelete(r)')
               => responses' = responses
          /\ (/\ pc[r] = "statsFind"
              /\ pc'[r] # "statsFind"
              /\ ~loc'[r].fault
              /\ \E d \in Requests : Deleted(d) /\ req[d].body.id = req[r].body.promptId)
               => loc'[r].responses = StoredForPrompt(req[r].body.promptId)]_vars

\* The prompt with a stored response has been deleted, the response is
\* still stored, and a later statistics request for the id has reported it.
C19_Witness ==
  \E d, r \in Requests :
    /\ Deleted(d)
    /\ d < r
    /\ WithId(prompts, req[d].body.id) = {}
    /\ StoredForPrompt(req[d].body.id) # {}
    /\ pc[r] = "done" /\ IsStatsGet(r)
    /\ req[r].body.promptId = req[d].body.id
    /\ res[r].status = 200
    /\ res[r].data.responseCount = Cardinality(StoredForPrompt(req[d].body.id))

\* C20: no step of any request removes a stored response or changes its
\* userId, promptId or selectedResponse: the stored responses only grow.
C20_ResponsesOnlyGrow ==
  [][/\ responses \subseteq responses'
     /\ \A x \in responses : \A y \in responses' :
          y.id = x.id => y = x]_vars

\* A response stored from the start is still stored after a second one has
\* been created and the prompt it answers has been deleted.
C20_Witness ==
  /\ \E x \in responses : x.id = 3
  /\ \E x \in responses : x.id # 3
  /\ \E d \in Requests : Deleted(d) /\ StoredForPrompt(req[d].body.id) # {}

Options(p) == {p.resp1, p.resp2, p.resp3, p.resp4} \ {""}

\* C21: the selectedResponse of every stored response is one of the option
\* texts resp1..resp4 of the stored prompt that its promptId refers to.
C21_AnswerIsAnOption ==
  \A x \in responses : \A p \in prompts :
    p.id = x.promptId => x.selectedResponse \in Options(p)

\* --------------------------------------------------------------- user routes
NoUser == [clerkId |-> ""]

UserDoc(clerkId, email, gender, position, year, accountCreated, isMod) ==
  [clerkId |-> clerkId, email |-> email, gender |-> gender,
   position |-> position, year |-> year, accountCreated |-> accountCreated,
   isMod |-> isMod]

\* Identities of the provider: two users, and a second identity of u2 that
\* carries the e-mail address of u1.
Identities ==
  {[id |-> "u1", email |-> "e1"],
   [id |-> "u2", email |-> "e2"],
   [id |-> "u2", email |-> "e1"]}

\* A users collection without unique indexes.
NoUserIndex(coll, doc) == FALSE
\* unique: true on clerkId and on email: an insert or update that would
\* give two documents the same clerkId or the same email is rejected.
UserIndexRejects(coll, doc) ==
  \E x \in coll : x.clerkId = doc.clerkId \/ x.email = doc.email

\* required: true on clerkId and email.
UserInvalid(doc) == doc.clerkId = "" \/ doc.email = ""

\* Stored users at the start: none, or one moderator who completed the
\* profile.
UserSeeds ==
  {{}, {UserDoc("u0", "e0", "M", "Staff", 1990, TRUE, TRUE)}}

InitUsers ==
  /\ responses = {}
  /\ prompts = {}
  /\ nextId = 1
  /\ req = [r \in Requests |-> NoReq]
  /\ pc = [r \in Requests |-> "idle"]
  /\ loc = [r \in Requests |-> NoLoc]
  /\ res = [r \in Requests |-> NoRes]
  /\ prior = [r \in Requests |-> NoRec]
  /\ gate = [outcome |-> [kind |-> "none", cats |-> <<>>], called |-> FALSE,
             rejected |-> FALSE, value |-> FALSE]
  /\ users \in UserSeeds
  /\ bucket = NoBucket
  /\ ui = NoUi
  /\ cached = NoCached
  /\ dbc = NoDbc

Throw(r) == pc' = [pc EXCEPT ![r] = "thrown"]

\* A webhook that creates users who have already completed the profile.
WebhookUserCompleted(data) == UserDoc(data.id, data.email, "", "", 2000, TRUE, FALSE)
\* new User({ clerkId: id, email, ..., accountCreated: false, position: '',
\* year: 2000 }); isMod takes the schema default.
WebhookUser(data) == UserDoc(data.id, data.email, "", "", 2000, FALSE, FALSE)

\* The user.created webhook: header check, signature verification, event
\* type.  The replies of this route have no success field.
WebhookArrive(r) ==
  /\ CanArrive(r)
  /\ \E verified \in BOOLEAN, type \in {"user.created", "user.updated"},
        data \in Identities :
       /\ (~verified \/ type # "user.created")
            => (data.id = "u1" /\ (~verified => type = "user.created"))
       /\ req' = [req EXCEPT ![r] =
            [route |-> "webhook", method |-> "POST",
             body |-> [type |-> type, data |-> data],
             sent |-> [type |-> type, data |-> data, verified |-> verified]]]
       /\ IF ~verified
          THEN Finish(r, Json(400, FALSE, "", "Verification error", NoUser))
          ELSE IF type # "user.created"
          THEN Finish(r, Json(200, FALSE, "Webhook received", "", NoUser))
          ELSE /\ pc' = [pc EXCEPT ![r] = "whFindOne"]
               /\ UNCHANGED res
  /\ UNCHANGED <<responses, prompts, nextId, loc, prior, gate, users, bucket, ui, cached, dbc>>

\* let user = await User.findOne({ clerkId: id }); outside any try block.
WebhookFindOne(r) ==
  /\ pc[r] = "whFindOne"
  /\ LET id == req[r].body.data.id
     IN \E fault \in BOOLEAN :
          IF fault
          THEN /\ loc' = [loc EXCEPT ![r].fault = TRUE]
               /\ Throw(r)
               /\ UNCHANGED res
          ELSE IF \E u \in users : u.clerkId = id
          THEN LET user == CHOOSE u \in users : u.clerkId = id
               IN /\ loc' = [loc EXCEPT ![r].existing = user]
                  /\ Finish(r, Json(201, FALSE, "User created", "", user))
          ELSE /\ pc' = [pc EXCEPT ![r] = "whSave"]
               /\ UNCHANGED <<loc, res>>
  /\ UNCHANGED <<responses, prompts, nextId, req, prior, gate, users, bucket, ui, cached, dbc>>

\* await user.save()
WebhookSave(r) ==
  /\ pc[r] = "whSave"
  /\ LET user == WebhookUser(req[r].body.data)
     IN \E fault \in BOOLEAN :
          IF fault
          THEN /\ loc' = [loc EXCEPT ![r].fault = TRUE]
               /\ Throw(r)
               /\ UNCHANGED <<res, users>>
          ELSE IF UserIndexRejects(users, user)
          THEN /\ loc' = [loc EXCEPT ![r].errorCode = DUPLICATE_KEY]
               /\ Throw(r)
               /\ UNCHANGED <<res, users>>
          ELSE /\ users' = users \cup {user}
               /\ loc' = [loc EXCEPT ![r].saved = TRUE]
               /\ Finish(r, Json(201, FALSE, "User created", "", user))
  /\ UNCHANGED <<responses, prompts, nextId, req, prior, gate, bucket, ui, cached, dbc>>

\* Bodies of POST /api/users sent by hand: the minimal one of the tests and
\* one without the e-mail address.
ApiUserBodies ==
  {UserDoc("u1", "e1", "", "", 2000, FALSE, FALSE),
   UserDoc("u2", "", "", "", 2000, FALSE, FALSE)}

\* The payload of the profile form of a signed-in user.
FormPayload(ident) == UserDoc(ident.id, ident.email, "F", "Student", 2004, TRUE, FALSE)

\* POST /api/users: arrival.
PostUserArrive(r) ==
  /\ CanArrive(r)
  /\ \E body \in ApiUserBodies :
       req' = [req EXCEPT ![r] =
         [route |-> "users", method |-> "POST", body |-> body, sent |-> body]]
  /\ pc' = [pc EXCEPT ![r] = "postCreate"]
  /\ UNCHANGED <<responses, prompts, nextId, loc, res, prior, gate, users, bucket, ui, cached, dbc>>

\* await User.create(req.body)
PostUserCreate(r) ==
  /\ pc[r] = "postCreate"
  /\ LET body == req[r].body
     IN \E fault \in BOOLEAN :
          IF fault
          THEN /\ loc' = [loc EXCEPT ![r].fault = TRUE]
               /\ Finish(r, Json(400, FALSE, "", StorageErrMsg, NoUser))
               /\ UNCHANGED users
          ELSE IF UserInvalid(body)
          THEN /\ Finish(r, Json(400, FALSE, "", "User validation failed", NoUser))
               /\ UNCHANGED <<users, loc>>
          ELSE IF UserIndexRejects(users, body)
          THEN /\ loc' = [loc EXCEPT ![r].errorCode = DUPLICATE_KEY]
               /\ Finish(r, Json(400, FALSE, "", DuplicateErrMsg, NoUser))
               /\ UNCHANGED users
          ELSE /\ users' = users \cup {body}
               /\ loc' = [loc EXCEPT ![r].saved = TRUE]
               /\ Finish(r, Json(201, TRUE, "", "", body))
  /\ UNCHANGED <<responses, prompts, nextId, req, prior, gate, bucket, ui, cached, dbc>>

\* POST /api/saveUser: arrival; the query is skipped without a clerkId.
SaveUserArrive(r) ==
  /\ CanArrive(r)
  /\ \E body \in {[clerkId |-> "u1", email |-> "e1"],
                  [clerkId |-> "", email |-> "e2"]} :
       /\ req' = [req EXCEPT ![r] =
            [route |-> "saveUser", method |-> "POST", body |-> body, sent |-> body]]
       /\ pc' = [pc EXCEPT ![r] = IF body.clerkId # "" THEN "suUpdate" ELSE "suSave"]
  /\ UNCHANGED <<responses, prompts, nextId, loc, res, prior, gate, users, bucket, ui, cached, dbc>>

SetAccountCreated(u) == [u EXCEPT !.accountCreated = TRUE]

\* await User.findOneAndUpdate({ clerkId }, { accountCreated: true })
SaveUserUpdate(r) ==
  /\ pc[r] = "suUpdate"
  /\ LET id == req[r].body.clerkId
     IN \E fault \in BOOLEAN :
          IF fault
          THEN /\ loc' = [loc EXCEPT ![r].fault = TRUE]
               /\ Finish(r, Json(500, FALSE, "", "Database save failed", NoUser))
               /\ UNCHANGED users
          ELSE IF \E u \in users : u.clerkId = id
          THEN LET u == CHOOSE x \in users : x.clerkId = id
               IN /\ users' = (users \ {u}) \cup {SetAccountCreated(u)}
                  /\ loc' = [loc EXCEPT ![r].existing = u]
                  /\ Finish(r, Json(200, FALSE, "User updated successfully!", "", NoUser))
          ELSE /\ pc' = [pc EXCEPT ![r] = "suSave"]
               /\ UNCHANGED <<users, loc, res>>
  /\ UNCHANGED <<responses, prompts, nextId, req, prior, gate, bucket, ui, cached, dbc>>

\* await caseUser.save()
SaveUserSave(r) ==
  /\ pc[r] = "suSave"
  /\ LET caseUser == UserDoc(req[r].body.clerkId, req[r].body.email,
                             "", "", 2000, TRUE, FALSE)
     IN \E fault \in BOOLEAN :
          IF fault
          THEN /\ loc' = [loc EXCEPT ![r].fault = TRUE]
               /\ Finish(r, Json(500, FALSE, "", "Database save failed", NoUser))
               /\ UNCHANGED users
          ELSE IF UserInvalid(caseUser)
          THEN /\ Finish(r, Json(500, FALSE, "", "Database save failed", NoUser))
               /\ UNCHANGED <<users, loc>>
          ELSE IF UserIndexRejects(users, caseUser)
          THEN /\ loc' = [loc EXCEPT ![r].errorCode = DUPLICATE_KEY]
               /\ Finish(r, Json(500, FALSE, "", "Database save failed", NoUser))
               /\ UNCHANGED users
          ELSE /\ users' = users \cup {caseUser}
               /\ loc' = [loc EXCEPT ![r].saved = TRUE]
               /\ pc' = [pc EXCEPT ![r] = "suSet"]
               /\ UNCHANGED res
  /\ UNCHANGED <<responses, prompts, nextId, req, prior, gate, bucket, ui, cached, dbc>>

\* await User.findByIdAndUpdate(savedUser._id, { $set: { accountCreated: true } })
SaveUserSet(r) ==
  /\ pc[r] = "suSet"
  /\ \E fault \in BOOLEAN :
       IF fault
       THEN /\ loc' = [loc EXCEPT ![r].fault = TRUE]
            /\ Finish(r, Json(500, FALSE, "", "Database save failed", NoUser))
            /\ UNCHANGED users
       ELSE /\ users' = {IF u.clerkId = req[r].body.clerkId
                         THEN SetAccountCreated(u) ELSE u : u \in users}
            /\ Finish(r, Json(201, FALSE, "User saved successfully!", "", NoUser))
            /\ UNCHANGED loc
  /\ UNCHANGED <<responses, prompts, nextId, req, prior, gate, bucket, ui, cached, dbc>>

\* updateData of PUT /api/users: the fields of the body other than id.
ApplyFields(doc, updateData) ==
  [f \in DOMAIN doc |-> IF f \in DOMAIN updateData THEN updateData[f] ELSE doc[f]]

\* PUT /api/users sent by hand, as in the tests: the id is the clerkId.
PutUserArrive(r) ==
  /\ CanArrive(r)
  /\ \E id \in {"u1", "u2"} :
       req' = [req EXCEPT ![r] =
         [route |-> "users", method |-> "PUT",
          body |-> [id |-> id,
                    updateData |-> [accountCreated |-> TRUE, position |-> "Developer"]],
          sent |-> [id |-> id]]]
  /\ pc' = [pc EXCEPT ![r] = "putFind"]
  /\ UNCHANGED <<responses, prompts, nextId, loc, res, prior, gate, users, bucket, ui, cached, dbc>>

\* The documents a filter { clerkId: id } selects.  A body without id
\* gives { clerkId: undefined }: depending on the driver this is sent as
\* { clerkId: null }, which selects nothing, or the key is dropped and the
\* filter {} selects some document of the collection.
MatchClerkId(coll, id) ==
  IF id # "" THEN {u \in coll : u.clerkId = id}
  ELSE coll

\* let updatedUser = await User.findOneAndUpdate({ clerkId: id }, updateData)
PutUserFindOneAndUpdate(r) ==
  /\ pc[r] = "putFind"
  /\ LET id == req[r].body.id
         updateData == req[r].body.updateData
     IN \E fault \in BOOLEAN, some \in BOOLEAN :
          /\ (id # "" => some)
          /\ IF fault
             THEN /\ loc' = [loc EXCEPT ![r].fault = TRUE]
                  /\ Finish(r, Json(400, FALSE, "", StorageErrMsg, NoUser))
                  /\ UNCHANGED users
             ELSE IF some /\ MatchClerkId(users, id) # {}
             THEN \E u \in MatchClerkId(users, id) :
                    LET updatedUser == ApplyFields(u, updateData)
                    IN IF UserIndexRejects(users \ {u}, updatedUser)
                       THEN /\ loc' = [loc EXCEPT ![r].errorCode = DUPLICATE_KEY]
                            /\ Finish(r, Json(400, FALSE, "", DuplicateErrMsg, NoUser))
                            /\ UNCHANGED users
                       ELSE /\ users' = (users \ {u}) \cup {updatedUser}
                            /\ loc' = [loc EXCEPT ![r].existing = u]
                            /\ Finish(r, Json(200, TRUE, "", "", updatedUser))
             ELSE /\ pc' = [pc EXCEPT ![r] = "putFallback"]
                  /\ UNCHANGED <<users, loc, res>>
  /\ UNCHANGED <<responses, prompts, nextId, req, prior, gate, bucket, ui, cached, dbc>>

\* updatedUser = await User.findByIdAndUpdate(id, updateData): an undefined
\* id finds nothing; a clerkId is no ObjectId and the cast throws.
PutUserFallback(r) ==
  /\ pc[r] = "putFallback"
  /\ \E fault \in BOOLEAN :
       IF fault
       THEN /\ loc' = [loc EXCEPT ![r].fault = TRUE]
            /\ Finish(r, Json(400, FALSE, "", StorageErrMsg, NoUser))
       ELSE IF req[r].body.id = ""
       THEN /\ Finish(r, Json(404, FALSE, "User not found", "", NoUser))
            /\ UNCHANGED loc
       ELSE /\ Finish(r, Json(400, FALSE, "", "Cast to ObjectId failed", NoUser))
            /\ UNCHANGED loc
  /\ UNCHANGED <<responses, prompts, nextId, req, prior, gate, users, bucket, ui, cached, dbc>>

\* The profile page on mount: GET /api/users?id=<clerkId>.  recordExists is
\* set when the reply is ok and carries a user; a user whose accountCreated
\* is true is redirected and never sees the form.
FormMount(r) ==
  /\ CanArrive(r)
  /\ \E ident \in {i \in Identities : i.email # "e1" \/ i.id = "u1"},
        fault \in BOOLEAN :
       /\ req' = [req EXCEPT ![r] =
            [route |-> "users", method |-> "GET", body |-> [id |-> ident.id],
             sent |-> ident]]
       /\ LET found == {u \in users : u.clerkId = ident.id}
          IN IF ~fault /\ found # {}
             THEN LET u == CHOOSE x \in found : TRUE
                  IN /\ loc' = [loc EXCEPT ![r].form = TRUE,
                                           ![r].recordExists = TRUE,
                                           ![r].existing = u]
                     /\ IF u.accountCreated
                        THEN Finish(r, Json(200, TRUE, "", "", u))
                        ELSE /\ pc' = [pc EXCEPT ![r] = "form"]
                             /\ UNCHANGED res
             ELSE /\ loc' = [loc EXCEPT ![r].form = TRUE, ![r].fault = fault]
                  /\ pc' = [pc EXCEPT ![r] = "form"]
                  /\ UNCHANGED res
  /\ UNCHANGED <<responses, prompts, nextId, prior, gate, users, bucket, ui, cached, dbc>>

\* handleRedirect with a valid form: the payload has clerkId but no id;
\* the method is PUT when recordExists, else POST.
FormSubmit(r) ==
  /\ pc[r] = "form"
  /\ LET payload == FormPayload(req[r].sent)
     IN IF loc[r].recordExists
        THEN /\ req' = [req EXCEPT ![r] =
                  [route |-> "users", method |-> "PUT",
                   body |-> [id |-> "", updateData |-> payload],
                   sent |-> req[r].sent]]
             /\ pc' = [pc EXCEPT ![r] = "putFind"]
        ELSE /\ req' = [req EXCEPT ![r] =
                  [route |-> "users", method |-> "POST", body |-> payload,
                   sent |-> req[r].sent]]
             /\ pc' = [pc EXCEPT ![r] = "postCreate"]
  /\ loc' = [loc EXCEPT ![r].fault = FALSE]
  /\ UNCHANGED <<responses, prompts, nextId, res, prior, gate, users, bucket, ui, cached, dbc>>

NextUsers ==
  \E r \in Requests :
    \/ WebhookArrive(r)
    \/ WebhookFindOne(r)
    \/ WebhookSave(r)
    \/ PostUserArrive(r)
    \/ PostUserCreate(r)
    \/ SaveUserArrive(r)
    \/ SaveUserUpdate(r)
    \/ SaveUserSave(r)
    \/ SaveUserSet(r)
    \/ PutUserArrive(r)
    \/ PutUserFindOneAndUpdate(r)
    \/ PutUserFallback(r)
    \/ FormMount(r)
    \/ FormSubmit(r)

SpecUsers == InitUsers /\ [][NextUsers]_vars

IsWebhook(r) ==
  /\ req[r].route = "webhook"
  /\ req[r].sent.verified
  /\ req[r].body.type = "user.created"

\* C22: no two stored users have the same clerkId and no two have the same
\* email, whatever webhook deliveries, POST /api/users, POST /api/saveUser
\* and PUT /api/users requests run, one after another or concurrently.
C22_UniqueIdentity ==
  \A a, b \in users :
    (a.clerkId = b.clerkId \/ a.email = b.email) => a = b

\* Two deliveries of the same event both found no user; one has saved the
\* user and the save of the other was rejected by the index.
C22_Witness ==
  \E r, q \in Requests :
    /\ r # q
    /\ IsWebhook(r) /\ IsWebhook(q)
    /\ req[r].body.data = req[q].body.data
    /\ pc[r] = "done" /\ loc[r].saved
    /\ pc[q] = "thrown" /\ loc[q].errorCode = DUPLICATE_KEY
    /\ Cardinality({u \in users : u.clerkId = req[r].body.data.id}) = 1

WithClerkId(coll, id) == {u \in coll : u.clerkId = id}

\* C23: a user.created delivery that finds a user with the event's clerkId
\* creates nothing, leaves that user and every other user unchanged and
\* answers with the stored user; a delivery that finds none and whose save
\* the store accepts adds exactly one user, with the event's clerkId,
\* accountCreated = false and isMod = false; a delivery whose save is
\* rejected or fails adds nothing.  After a delivery that was answered, one
\* user has the clerkId.
C23_WebhookIdempotent ==
  /\ [](\A r \in Requests :
          (IsWebhook(r) /\ pc[r] = "done")
            => /\ Cardinality(WithClerkId(users, req[r].body.data.id)) = 1
               /\ res[r].status = 201
               /\ res[r].data.clerkId = req[r].body.data.id
               /\ loc[r].existing # NoUser => (~loc[r].saved /\ res[r].data = loc[r].existing))
  /\ [][\A r \in Requests :
          /\ (pc[r] = "whFindOne" /\ pc'[r] # "whFindOne") =>
               /\ users' = users
               /\ (~loc'[r].fault /\ WithClerkId(users, req[r].body.data.id) # {})
                    => (pc'[r] = "done" /\ res'[r].data \in users)
          /\ (pc[r] = "whSave" /\ pc'[r] = "thrown") => users' = users
          /\ (pc[r] = "whSave" /\ pc'[r] = "done") =>
               \E n \in users' :
                 /\ n \notin users
                 /\ users' = users \cup {n}
                 /\ WithClerkId(users, req[r].body.data.id) = {}
                 /\ n.clerkId = req[r].body.data.id
                 /\ n.email = req[r].body.data.email
                 /\ ~n.accountCreated
                 /\ ~n.isMod
                 /\ res'[r].data = n]_vars

\* C23 as stated: a delivery that finds a user with the clerkId changes
\* nothing, and a delivery that the store answers while no user has the
\* clerkId creates exactly one user with accountCreated = false and
\* isMod = false.
C23_CreatesWheneverNoneExists ==
  [][\A r \in Requests :
       /\ (pc[r] = "whFindOne" /\ pc'[r] # "whFindOne") => users' = users
       /\ (/\ pc[r] = "whSave"
           /\ pc'[r] # "whSave"
           /\ ~loc'[r].fault
           /\ WithClerkId(users, req[r].body.data.id) = {})
            => \E n \in users' :
                 /\ n \notin users
                 /\ users' = users \cup {n}
                 /\ n.clerkId = req[r].body.data.id
                 /\ ~n.accountCreated
                 /\ ~n.isMod]_vars

\* The event has been delivered twice: the first delivery saved the user,
\* the second found it and created nothing.
C23_Witness ==
  \E r, q \in Requests :
    /\ r < q
    /\ IsWebhook(r) /\ IsWebhook(q)
    /\ req[r].body.data = req[q].body.data
    /\ pc[r] = "done" /\ loc[r].saved
    /\ pc[q] = "done" /\ ~loc[q].saved /\ loc[q].existing = WebhookUser(req[q].body.data)
    /\ WithClerkId(users, req[r].body.data.id) = {WebhookUser(req[r].body.data)}

\* Request r is the PUT of a profile form whose page found a record of the
\* signed-in user.
IsFormPut(r) ==
  /\ loc[r].form
  /\ loc[r].recordExists
  /\ req[r].route = "users"
  /\ req[r].method = "PUT"

\* C27: when a record of the signed-in user exists, the PUT of a valid
\* profile form that the store answers succeeds and updates that record:
\* afterwards it has accountCreated = true and the submitted gender,
\* position and birth year, and no record has been added.
C27_FormUpdatesOwnRecord ==
  [][\A r \in Requests :
       (/\ IsFormPut(r)
        /\ pc[r] \in {"putFind", "putFallback"}
        /\ pc'[r] = "done"
        /\ ~loc'[r].fault)
         => /\ res'[r].status = 200
            /\ \E old \in WithClerkId(users, req[r].sent.id) :
                 LET new == ApplyFields(old, req[r].body.updateData)
                 IN /\ users' = (users \ {old}) \cup {new}
                    /\ new.accountCreated
                    /\ new.gender = FormPayload(req[r].sent).gender
                    /\ new.position = FormPayload(req[r].sent).position
                    /\ new.year = FormPayload(req[r].sent).year]_vars

\* ---------------------------------------------------------------- dbConnect
\* Calls of dbConnect in one module instance.  A call runs to its await
\* without interruption; the settlement of a connect promise queues the
\* continuations of the calls that await it as microtasks, in the order of
\* their awaits, and no new call starts before the queue is drained.
MacrotaskMayRun(queue) == queue = <<>>

\* A cache test that never finds a promise.
PromiseNeverCached(promise) == FALSE
\* if (!cached.promise) { ... }
PromiseCached(promise) == promise # 0

\* A catch block that keeps the rejected promise.
KeepPromise(promise) == promise
\* catch (error) { cached.promise = null; throw error; }
AfterCatch(promise) == 0

Pending == {k \in DOMAIN dbc.status : dbc.status[k] = "pending"}

\* dbConnect() up to await cached.promise, or to return cached.conn.
DbConnectCall(c) ==
  /\ dbc.at[c] = "idle"
  /\ \A d \in Callers : d < c => dbc.at[d] # "idle"
  /\ MacrotaskMayRun(dbc.queue)
  /\ IF cached.conn # 0
     THEN /\ dbc' = [dbc EXCEPT !.at[c] = "returned", !.ret[c] = cached.conn]
          /\ UNCHANGED cached
     ELSE LET start == ~PromiseCached(cached.promise)
              k == IF start THEN Len(dbc.status) + 1 ELSE cached.promise
              status == IF start THEN Append(dbc.status, "pending") ELSE dbc.status
          IN /\ cached' = [cached EXCEPT !.promise = k]
             /\ dbc' = [dbc EXCEPT
                  !.status = status,
                  !.connects = IF start THEN @ + 1 ELSE @,
                  !.awaits[c] = k,
                  !.at[c] = "awaiting",
                  !.queue = IF status[k] # "pending" THEN Append(@, c) ELSE @]
  /\ UNCHANGED <<responses, prompts, nextId, req, pc, loc, res, prior, gate, users,
                 bucket, ui>>

\* mongoose.connect resolves or rejects: the continuations of the calls
\* awaiting it are queued.
DbSettle(k) ==
  /\ k \in Pending
  /\ MacrotaskMayRun(dbc.queue)
  /\ \E outcome \in {"resolved", "rejected"} :
       LET Awaits(c) == dbc.at[c] = "awaiting" /\ dbc.awaits[c] = k
       IN dbc' = [dbc EXCEPT
            !.status[k] = outcome,
            !.queue = SelectSeq([i \in 1..MaxCallers |-> i], Awaits)]
  /\ UNCHANGED <<responses, prompts, nextId, req, pc, loc, res, prior, gate, users,
                 bucket, ui, cached>>

\* The continuation of one call: cached.conn = await cached.promise and
\* return, or the catch block.
DbContinue(c) ==
  /\ dbc.queue # <<>>
  /\ Head(dbc.queue) = c
  /\ IF dbc.status[dbc.awaits[c]] = "resolved"
     THEN /\ cached' = [cached EXCEPT !.conn = dbc.awaits[c]]
          /\ dbc' = [dbc EXCEPT !.at[c] = "returned", !.ret[c] = dbc.awaits[c],
                                !.queue = Tail(@)]
     ELSE /\ cached' = [cached EXCEPT !.promise = AfterCatch(@)]
          /\ dbc' = [dbc EXCEPT !.at[c] = "thrown", !.queue = Tail(@)]
  /\ UNCHANGED <<responses, prompts, nextId, req, pc, loc, res, prior, gate, users,
                 bucket, ui>>

NextDb ==
  \/ \E c \in Callers : DbConnectCall(c) \/ DbContinue(c)
  \/ \E k \in 1..MaxCallers : DbSettle(k)

SpecDb == Init /\ [][NextDb]_vars

\* C24: at most one connection attempt is pending at a time; every call
\* that awaits a pending attempt awaits the cached promise; as long as no
\* attempt has failed mongoose.connect has been called at most once; and a
\* call made once a connection is cached returns it without calling
\* mongoose.connect.
C24_OneAttemptAtATime ==
  /\ [](Cardinality(Pending) <= 1)
  /\ [](\A c \in Callers :
          (dbc.at[c] = "awaiting" /\ dbc.awaits[c] \in Pending)
            => dbc.awaits[c] = cached.promise)
  /\ []((\A k \in DOMAIN dbc.status : dbc.status[k] # "rejected")
          => dbc.connects <= 1)
  /\ []((dbc.queue = <<>> /\ \E k \in DOMAIN dbc.status : dbc.status[k] = "resolved")
          => cached.conn # 0)
  /\ [][\A c \in Callers :
          (dbc.at[c] = "idle" /\ dbc'.at[c] # "idle" /\ cached.conn # 0)
            => /\ dbc'.at[c] = "returned"
               /\ dbc'.ret[c] = cached.conn
               /\ dbc'.connects = dbc.connects
               /\ cached' = cached]_vars

\* Two calls awaited the one attempt and a third call found the connection
\* cached: all three hold the same connection after one mongoose.connect.
C24_Witness ==
  /\ dbc.connects = 1
  /\ \A c \in Callers : dbc.at[c] = "returned" /\ dbc.ret[c] = 1
  /\ \E c, d, e \in Callers :
       /\ c # d
       /\ dbc.awaits[c] = 1 /\ dbc.awaits[d] = 1 /\ dbc.awaits[e] = 0

\* C25: the continuation of every call that awaited a failed attempt
\* throws, leaves cached.conn null and leaves cached.promise null; the
\* next call then starts a fresh attempt; and no catch block resets the
\* cache while a newer attempt is pending or a connection is cached.
C25_FailureResetsCache ==
  /\ [](\A c \in Callers :
          (/\ dbc.awaits[c] # 0
           /\ dbc.status[dbc.awaits[c]] = "rejected"
           /\ dbc.queue = <<>>)
            => dbc.at[c] = "thrown")
  /\ [](\A k \in Pending : cached.promise = k)
  /\ [][/\ cached.conn # 0 => cached'.conn = cached.conn
        /\ \A c \in Callers :
             /\ (dbc.at[c] = "awaiting" /\ dbc'.at[c] = "thrown")
                  => /\ cached.conn = 0
                     /\ cached'.conn = 0
                     /\ cached.promise \in {0, dbc.awaits[c]}
                     /\ cached'.promise = 0
             /\ (/\ dbc.at[c] = "idle"
                 /\ dbc'.at[c] # "idle"
                 /\ cached.conn = 0
                 /\ Pending = {})
                  => /\ dbc'.connects = dbc.connects + 1
                     /\ dbc'.awaits[c] \in {k \in DOMAIN dbc'.status :
                                             dbc'.status[k] = "pending"}
                     /\ cached'.promise = dbc'.awaits[c]]_vars

\* The first attempt failed for the two calls awaiting it; the next call
\* started a second attempt and got its connection.
C25_Witness ==
  \E a, b, c \in Callers :
    /\ a # b
    /\ dbc.awaits[a] = 1 /\ dbc.awaits[b] = 1
    /\ dbc.status[1] = "rejected"
    /\ dbc.at[a] = "thrown" /\ dbc.at[b] = "thrown"
    /\ dbc.awaits[c] = 2
    /\ dbc.at[c] = "returned"
    /\ cached.conn = 2

\* ------------------------------------------------------------ main feed UI
\* The feed page of the signed-in user, with one prompt open in the modal.
\* Requests that are clicks of this page carry the option clicked in
\* ui.clicks; the other requests come from elsewhere.
FeedUser == "u1"
OpenPrompt == 1

\* useEffect on [selectedPrompt, userResponses]: the selection shown follows
\* the map, null when the map has no answer for the open prompt.
SyncSelection(u) ==
  [u EXCEPT !.selectedResponse = u.userResponses[OpenPrompt]]

\* A rejection branch that keeps the option clicked.
ShownIsClicked(clicked, data) == clicked
\* setSelectedResponse(data.data.selectedResponse)
ShownAfterRejection(clicked, data) == data.selectedResponse

\* handleResponseClick up to await getToken().
UiClick(r) ==
  /\ CanArrive(r)
  /\ \E response \in Options(CHOOSE p \in prompts : p.id = OpenPrompt) :
       IF ui.userResponses[OpenPrompt] # ""
       THEN /\ ui' = [ui EXCEPT !.clicks[r] = response]
            /\ pc' = [pc EXCEPT ![r] = "blocked"]
       ELSE /\ ui' = [ui EXCEPT !.clicks[r] = response,
                                !.selectedResponse = response]
            /\ pc' = [pc EXCEPT ![r] = "clicked"]
  /\ UNCHANGED <<responses, prompts, nextId, req, loc, res, prior, gate, users,
                 bucket, cached, dbc>>

\* getToken() resolved: without a token the handler returns, with one the
\* POST is sent and the route handler checks its fields.
UiFetch(r) ==
  /\ pc[r] = "clicked"
  /\ \E token \in BOOLEAN :
       IF token
       THEN PostResponseReceive(r,
              [userId |-> FeedUser, promptId |-> OpenPrompt,
               selectedResponse |-> ui.clicks[r]])
       ELSE /\ pc' = [pc EXCEPT ![r] = "blocked"]
            /\ UNCHANGED <<responses, prompts, nextId, req, loc, res, prior, gate,
                           users, bucket, ui, cached, dbc>>

\* The reply of the POST reaches the page, and the page renders.
UiReply(r) ==
  /\ ui.clicks[r] # ""
  /\ pc[r] \in {"done", "thrown"}
  /\ pc' = [pc EXCEPT ![r] = "replied"]
  /\ ui' =
       IF pc[r] = "done" /\ res[r].status = 201
       THEN SyncSelection([ui EXCEPT !.userResponses[OpenPrompt] = ui.clicks[r]])
       ELSE IF pc[r] = "done" /\ res[r].data.selectedResponse # ""
       THEN SyncSelection(
              [ui EXCEPT
                 !.selectedResponse = ShownAfterRejection(ui.clicks[r], res[r].data),
                 !.userResponses[OpenPrompt] =
                    ShownAfterRejection(ui.clicks[r], res[r].data)])
       ELSE ui
  /\ UNCHANGED <<responses, prompts, nextId, req, loc, res, prior, gate, users,
                 bucket, cached, dbc>>

\* fetchUserResponses: the GET reads the user's stored responses, or fails.
UiMountFetch ==
  /\ ui.mount = "idle"
  /\ \E ok \in BOOLEAN :
       IF ok
       THEN ui' = [ui EXCEPT
              !.mount = "fetched",
              !.responsesMap =
                 [p \in PromptRefs |-> StoredFor(FeedUser, p).selectedResponse]]
       ELSE ui' = [ui EXCEPT !.mount = "done"]
  /\ UNCHANGED <<responses, prompts, nextId, req, pc, loc, res, prior, gate, users,
                 bucket, cached, dbc>>

\* setUserResponses(responsesMap) replaces the whole map; the page renders.
UiMountReply ==
  /\ ui.mount = "fetched"
  /\ ui' = SyncSelection([ui EXCEPT !.mount = "done",
                                    !.userResponses = ui.responsesMap])
  /\ UNCHANGED <<responses, prompts, nextId, req, pc, loc, res, prior, gate, users,
                 bucket, cached, dbc>>

NextFeed ==
  \/ \E r \in Requests : UiClick(r) \/ UiFetch(r) \/ UiReply(r)
  \/ UiMountFetch
  \/ UiMountReply
  \/ NextResponses

SpecFeed == InitSeeded /\ [][NextFeed]_vars

\* C26: when the reply of a click's POST is a 201 or the rejection of a
\* second answer, the local map and the selection shown hold the answer
\* stored for (user, prompt); whatever the map holds for the prompt is the
\* stored answer; and a click made while the map holds an answer sends no
\* POST.
C26_ShownIsStored ==
  /\ [](ui.userResponses[OpenPrompt] # ""
          => ui.userResponses[OpenPrompt]
               = StoredFor(FeedUser, OpenPrompt).selectedResponse)
  /\ [][\A r \in Requests :
          /\ (/\ pc[r] = "done"
              /\ pc'[r] = "replied"
              /\ (res[r].status = 201 \/ res[r].message = AlreadyMsg))
               => /\ StoredFor(FeedUser, OpenPrompt) # NoRec
                  /\ ui'.userResponses[OpenPrompt]
                       = StoredFor(FeedUser, OpenPrompt).selectedResponse
                  /\ ui'.selectedResponse
                       = StoredFor(FeedUser, OpenPrompt).selectedResponse
          /\ (/\ pc[r] = "idle"
              /\ ui'.clicks[r] # ""
              /\ ui.userResponses[OpenPrompt] # "")
               => /\ pc'[r] = "blocked"
                  /\ req' = req
                  /\ ui'.userResponses = ui.userResponses
                  /\ ui'.selectedResponse = ui.selectedResponse]_vars

\* The user clicked "No" while "Yes" was stored and the map was empty: the
\* page shows "Yes"; a later click was not sent.
C26_Witness ==
  \E r, q \in Requests :
    /\ ui.clicks[r] = "No"
    /\ pc[r] = "replied"
    /\ res[r].message = AlreadyMsg
    /\ ui.userResponses[OpenPrompt] = "Yes"
    /\ ui.selectedResponse = "Yes"
    /\ ui.clicks[q] # ""
    /\ pc[q] = "blocked"
    /\ req[q] = NoReq

\* C28: right after the creation of an auto-flagged prompt, the reported
\* view or the archived view lists it.
C28_AutoFlaggedIsListed ==
  [][\A r \in Requests :
       (/\ pc[r] = "create"
        /\ req[r].route = "prompt"
        /\ pc'[r] = "done"
        /\ res'[r].status = 201
        /\ res'[r].data.isAutoFlagged)
         => res'[r].data \in ReportedView(prompts') \cup ArchivedView(prompts')]_vars

\* ------------------------------------------- demographics of the statistics
\* Stored users for the statistics: u1 with a complete profile, and u2 with
\* any combination of present and absent gender, position and birth year,
\* or without a User record.
DemographicPopulations ==
  {{User("u1", "F", "Student", 2004, TRUE)}}
  \cup {{User("u1", "F", "Student", 2004, TRUE), User("u2", g, p, y, FALSE)} :
          g \in {"", "M"}, p \in {"", "Staff"}, y \in {0, 1990}}

\* Stored responses to prompt 1: one of u1, or one of each user with the
\* same or with different answers.
DemographicResponses ==
  {{[id |-> 3, userId |-> "u1", promptId |-> 1, selectedResponse |-> "Yes"]}}
  \cup {{[id |-> 3, userId |-> "u1", promptId |-> 1, selectedResponse |-> "Yes"],
         [id |-> 4, userId |-> "u2", promptId |-> 1, selectedResponse |-> a]} :
          a \in Answers}

InitDemographics ==
  /\ responses \in DemographicResponses
  /\ prompts = SeedPrompts
  /\ nextId = 3 + Cardinality(responses)
  /\ req = [r \in Requests |-> NoReq]
  /\ pc = [r \in Requests |-> "idle"]
  /\ loc = [r \in Requests |-> NoLoc]
  /\ res = [r \in Requests |-> NoRes]
  /\ prior = [r \in Requests |-> NoRec]
  /\ gate = [outcome |-> [kind |-> "none", cats |-> <<>>], called |-> FALSE,
             rejected |-> FALSE, value |-> FALSE]
  /\ users \in DemographicPopulations
  /\ bucket = NoBucket
  /\ ui = NoUi
  /\ cached = NoCached
  /\ dbc = NoDbc

SpecDemographics == InitDemographics /\ [][NextStats]_vars

RECURSIVE SumOver(_, _)
SumOver(counter, keys) ==
  IF keys = {} THEN 0
  ELSE LET k == CHOOSE k \in keys : TRUE
       IN counter[k] + SumOver(counter, keys \ {k})

Dimensions == {"gender", "position", "year"}

\* The user has a value that the tally counts in the dimension.
HasValue(user, dimension) ==
  IF dimension = "year" THEN user.year # 0 ELSE user[dimension] # ""

\* The respondents of an answer that have a User record with a value in
\* the dimension.
Counted(S, answer, dimension) ==
  {x.userId : x \in {y \in S : y.selectedResponse = answer}}
    \cap {u.clerkId : u \in {v \in users : HasValue(v, dimension)}}

\* C29: in the statistics of a prompt, for each answer entry and each of
\* gender, position and year the category counts add up to the number of
\* respondents of that answer who have a User record with a value in that
\* dimension: at most the entry's count, and less exactly when some
\* respondent has no record or no value.
C29_DemographicsAddUp ==
  \A r \in Requests :
    (pc[r] = "done" /\ IsStatsGet(r) /\ res[r].status = 200)
      => \A a \in DOMAIN res[r].data.answerStats : \A dim \in Dimensions :
           LET S == loc[r].responses
               entry == res[r].data.answerStats[a]
               sum == SumOver(entry.demographics[dim],
                              DOMAIN entry.demographics[dim])
               respondents == {x.userId : x \in {y \in S : y.selectedResponse = a}}
           IN /\ sum = Cardinality(Counted(S, a, dim))
              /\ sum <= entry.count
              /\ (sum < entry.count)
                   <=> \E id \in respondents :
                         \/ \A u \in users : u.clerkId # id
                         \/ \E u \in users : u.clerkId = id /\ ~HasValue(u, dim)

\* Two users gave the same answer; one has a gender but neither position
\* nor birth year: the gender counts add up to 2, the others to 1.
C29_Witness ==
  \E r \in Requests :
    /\ pc[r] = "done"
    /\ IsStatsGet(r)
    /\ res[r].status = 200
    /\ "Yes" \in DOMAIN res[r].data.answerStats
    /\ LET entry == res[r].data.answerStats["Yes"]
       IN /\ entry.count = 2
          /\ entry.demographics.gender = ("F" :> 1) @@ ("M" :> 1)
          /\ SumOver(entry.demographics.position,
                     DOMAIN entry.demographics.position) = 1
          /\ DOMAIN entry.demographics.year = {"18-24"}

\* C30: the answerStats of a statistics reply has an entry for a text
\* exactly when a response that the request read for the prompt selected
\* that text, and each such response is still stored; every entry has
\* count >= 1; an option of the prompt that none of them selected has no
\* entry; and hasEnoughData is true exactly when responseCount > 0.
C30_EntriesAreChosenAnswers ==
  \A r \in Requests :
    (pc[r] = "done" /\ IsStatsGet(r) /\ res[r].status = 200)
      => LET S == loc[r].responses
             d == res[r].data
         IN /\ S \subseteq StoredForPrompt(req[r].body.promptId)
            /\ \A a \in Answers \cup {x.selectedResponse : x \in responses} :
                 a \in DOMAIN d.answerStats
                   <=> \E x \in S : x.selectedResponse = a
            /\ \A a \in DOMAIN d.answerStats : d.answerStats[a].count >= 1
            /\ \A p \in prompts :
                 p.id = req[r].body.promptId
                   => \A o \in Options(p) :
                        (\A x \in S : x.selectedResponse # o)
                          => o \notin DOMAIN d.answerStats
            /\ d.hasEnoughData <=> d.responseCount > 0

\* Statistics of a prompt with options "Yes" and "No" that has exactly one
\* response: one entry, none for "No", and hasEnoughData is true.
C30_Witness ==
  \E r \in Requests :
    /\ pc[r] = "done"
    /\ IsStatsGet(r)
    /\ res[r].status = 200
    /\ \E p \in prompts : p.id = req[r].body.promptId /\ "No" \in Options(p)
    /\ res[r].data.responseCount = 1
    /\ res[r].data.hasEnoughData
    /\ DOMAIN res[r].data.answerStats = {"Yes"}

====
